---- MODULE Spec2Model ----
(***************************************************************************)
(* texview (src/main.cpp): the viewer's process-wide state, the OpenGL     *)
(* objects it owns, shader synthesis, texture loading, the swizzle model,  *)
(* the mip/LOD controller, the frame loop and the zoom controller.         *)
(*                                                                         *)
(* Characters are ASCII codes, texts are strings.  A zoom value is the     *)
(* exact real (a + b*sqrt(2)) / d, kept as the record [a, b, d].           *)
(***************************************************************************)
EXTENDS Integers, Sequences, FiniteSets, TLC

VARIABLES
    curTex,                 \* static texview::Texture curTex
    gl,                     \* the OpenGL context's objects and enables
    shaderProgram,          \* static GLuint shaderProgram
    texSampleAndNormalize,  \* static std::string texSampleAndNormalize
    swizzle,                \* static std::string swizzle
    simpleSwizzle,          \* static char simpleSwizzle[5]
    useSimpleSwizzle,       \* static bool useSimpleSwizzle
    showGLSLeditWindow,     \* static bool showGLSLeditWindow
    glslAppearing,          \* ImGui::IsWindowAppearing() of the editor window
    buf,                    \* static char buf[4096] of DrawGLSLeditWindow
    mipmapLevel,            \* static int mipmapLevel
    textureArrayIndex,      \* static int textureArrayIndex
    spacingBetweenMips,     \* static int spacingBetweenMips
    viewMode,               \* static enum ViewMode viewMode
    viewAtSameSize,         \* static bool viewAtSameSize
    cubeCrossVariant,       \* static int cubeCrossVariant
    numTiles,               \* static int numTiles[2]
    overrideSRGB,           \* static int overrideSRGB
    zoomLevel,              \* static double zoomLevel
    transX,                 \* static double transX
    transY,                 \* static double transY
    imGuiMenuWidth,         \* static float imGuiMenuWidth
    display,                \* glfwGetFramebufferSize(): <<display_w, display_h>>
    pc,                     \* position in main()'s loop: "draw" or "ui"
    tiles,                  \* the quads the last DrawTexture issued
    lastOp                  \* the handler that ran last, with its outcomes

vars == << curTex, gl, shaderProgram, texSampleAndNormalize, swizzle,
           simpleSwizzle, useSimpleSwizzle, showGLSLeditWindow, glslAppearing,
           buf, mipmapLevel, textureArrayIndex, spacingBetweenMips, viewMode,
           viewAtSameSize, cubeCrossVariant, numTiles, overrideSRGB, zoomLevel, transX,
           transY, imGuiMenuWidth, display, pc, tiles, lastOp >>

(***************************************************************************)
(* Bounds of the model.                                                    *)
(***************************************************************************)
\* the largest mip count of a texture file
MaxMips == 3
\* the largest element count of an array texture file
MaxElems == 2

Min(a, b) == IF a < b THEN a ELSE b
Max(a, b) == IF a > b THEN a ELSE b

(***************************************************************************)
(* OpenGL objects.  Shader and program objects share one name space; a     *)
(* name is the smallest unused one.  gl.attached holds <<program, shader>> *)
(* pairs, gl.delShaders / gl.delPrograms the objects flagged for deletion  *)
(* that are still held by an attachment / by being the current program.    *)
(***************************************************************************)
GlInit ==
    [ shaders |-> {}, delShaders |-> {}, programs |-> {}, delPrograms |-> {},
      attached |-> {}, code |-> {}, current |-> 0,
      textures |-> {}, base |-> << >>, max |-> << >>, bound |-> 0,
      srgb |-> FALSE ]

NewObjectName(g) ==
    CHOOSE n \in 1..(Cardinality(g.shaders \cup g.programs) + 1) :
        /\ n \notin g.shaders \cup g.programs
        /\ \A m \in 1..(n - 1) : m \in g.shaders \cup g.programs

\* glCreateShader + glShaderSource + glCompileShader: the new object exists
\* whatever the compile status is
GlCreateShader(g, name) == [g EXCEPT !.shaders = @ \cup {name}]

\* shaders flagged for deletion that no program holds any more are freed
GlSweepShaders(g) ==
    LET held == { pr[2] : pr \in g.attached }
        dead == g.delShaders \ held
    IN  [g EXCEPT !.shaders = @ \ dead, !.delShaders = @ \ dead]

\* glDeleteShader: 0 and unknown names are ignored; an attached shader is
\* only flagged and lives until it is detached
GlDeleteShader(g, s) ==
    IF s = 0 \/ s \notin g.shaders THEN g
    ELSE GlSweepShaders([g EXCEPT !.delShaders = @ \cup {s}])

GlCreateProgram(g, name) == [g EXCEPT !.programs = @ \cup {name}]

GlAttachShader(g, p, s) ==
    IF p \in g.programs /\ s \in g.shaders
    THEN [g EXCEPT !.attached = @ \cup {<<p, s>>}]
    ELSE g

\* a successful glLinkProgram: the program holds the executable made from
\* the sources of its shaders (gl.code: <<program, sources>>, the sources
\* without the swizzle statement)
GlLinkProgram(g, p, src) ==
    IF p \in g.programs THEN [g EXCEPT !.code = @ \cup {<<p, src>>}] ELSE g

\* the program object goes away and with it its attachments
GlFreeProgram(g, p) ==
    GlSweepShaders([g EXCEPT !.programs = @ \ {p},
                             !.delPrograms = @ \ {p},
                             !.code = { pr \in @ : pr[1] # p },
                             !.attached = { pr \in @ : pr[1] # p }])

\* glDeleteProgram: 0 and unknown names are ignored; the program in use is
\* only flagged and lives until it is no longer current
GlDeleteProgram(g, p) ==
    IF p = 0 \/ p \notin g.programs THEN g
    ELSE IF g.current = p THEN [g EXCEPT !.delPrograms = @ \cup {p}]
    ELSE GlFreeProgram(g, p)

\* glDetachShader: GL_INVALID_VALUE and no effect for a name that is no
\* program object
GlDetachShader(g, p, s) ==
    IF p \notin g.programs THEN g
    ELSE GlSweepShaders([g EXCEPT !.attached = @ \ {<<p, s>>}])

\* glUseProgram: a program flagged for deletion is freed once it stops
\* being current
GlUseProgram(g, p) ==
    IF p # 0 /\ p \notin g.programs THEN g
    ELSE LET old == g.current
             g1  == [g EXCEPT !.current = p]
         IN  IF old # p /\ old \in g.delPrograms THEN GlFreeProgram(g1, old)
             ELSE g1


\* glGenTextures + upload: a fresh texture object, bound to its target, with
\* OpenGL's initial GL_TEXTURE_BASE_LEVEL 0 and GL_TEXTURE_MAX_LEVEL 1000
GlNewTextureName(g) ==
    CHOOSE n \in 1..(Cardinality(g.textures) + 1) :
        /\ n \notin g.textures
        /\ \A m \in 1..(n - 1) : m \in g.textures

GlCreateTexture(g, name) ==
    [g EXCEPT !.textures = @ \cup {name},
              !.base = [t \in g.textures \cup {name} |->
                           IF t = name THEN 0 ELSE g.base[t]],
              !.max = [t \in g.textures \cup {name} |->
                           IF t = name THEN 1000 ELSE g.max[t]],
              !.bound = name]

GlDeleteTexture(g, name) ==
    IF name = 0 \/ name \notin g.textures THEN g
    ELSE [g EXCEPT !.textures = @ \ {name},
                   !.base = [t \in g.textures \ {name} |-> g.base[t]],
                   !.max = [t \in g.textures \ {name} |-> g.max[t]],
                   !.bound = IF @ = name THEN 0 ELSE @]

GlBindTexture(g, name) ==
    IF name # 0 /\ name \notin g.textures THEN g ELSE [g EXCEPT !.bound = name]

\* glTexParameteri(target, GL_TEXTURE_BASE_LEVEL / GL_TEXTURE_MAX_LEVEL, v)
\* acts on the texture bound to the target
GlTexLevels(g, baseLevel, maxLevel) ==
    IF g.bound = 0 THEN g
    ELSE [g EXCEPT !.base[g.bound] = baseLevel, !.max[g.bound] = maxLevel]

(***************************************************************************)
(* Texture resources (texview::Texture).  A file is the record of what     *)
(* Texture::Load() finds in it.                                            *)
(***************************************************************************)
TexFile(nm, ne, arr, cube, ik, nd, alpha, srgb, dsw, w, h) ==
    [ numMips |-> nm, numElements |-> ne, isArray |-> arr, isCubemap |-> cube,
      intKind |-> ik, normDiv |-> nd, hasAlpha |-> alpha, isSRGB |-> srgb,
      defaultSwizzle |-> dsw, w |-> w, h |-> h ]

\* a default-constructed texview::Texture
EmptyFile == TexFile(0, 0, FALSE, FALSE, "", "", FALSE, FALSE, << >>, 0, 0)

\* "rrr1", a default swizzle hint of a one-channel format
SwizzleRRR1 == << 114, 114, 114, 49 >>

TexFiles ==
    { TexFile(1, 1, FALSE, FALSE, "", "", TRUE, TRUE, << >>, 8, 4),
      TexFile(MaxMips, 1, FALSE, FALSE, "", "", FALSE, FALSE, SwizzleRRR1, 4, 4),
      TexFile(2, MaxElems, TRUE, FALSE, "u", "255.0", TRUE, FALSE, << >>, 4, 8),
      TexFile(MaxMips, 1, FALSE, TRUE, "", "", FALSE, TRUE, << >>, 4, 4),
      TexFile(1, MaxElems, TRUE, TRUE, "i", "127.0", FALSE, FALSE, << >>, 2, 2) }

EmptyTexture == [ file |-> EmptyFile, glTextureHandle |-> 0 ]

GetNumMips(tex) == tex.file.numMips
GetNumElements(tex) == tex.file.numElements
IsCubemap(tex) == tex.file.isCubemap
IsArray(tex) == tex.file.isArray

\* Texture::GetMipSize(): each level halves the size, never below one pixel
RECURSIVE HalveTimes(_, _)
HalveTimes(v, n) == IF n = 0 THEN v ELSE HalveTimes(Max(1, v \div 2), n - 1)

GetMipSize(tex, level) ==
    << HalveTimes(tex.file.w, level), HalveTimes(tex.file.h, level) >>

\* Texture::Clear() / the move assignment over an old texture: the old
\* texture's GPU object is released
TextureRelease(g, tex) == GlDeleteTexture(g, tex.glTextureHandle)

\* Texture::CreateOpenGLtexture(): on success the texture has a GPU object,
\* on failure its handle stays 0
CreateOpenGLtexture(g, tex, ok) ==
    IF ok
    THEN LET name == GlNewTextureName(g)
         IN  [ gl |-> GlCreateTexture(g, name),
               tex |-> [tex EXCEPT !.glTextureHandle = name] ]
    ELSE [ gl |-> g, tex |-> tex ]

(***************************************************************************)
(* Mip/LOD controller.                                                     *)
(***************************************************************************)
\* SetMipmapLevel() without its std::min(mipLevel, numMips - 1)
SetMipmapLevelNoClamp(g, texture, mipLevelArg, bindTexture) ==
    LET tex == texture.glTextureHandle
        numMips == GetNumMips(texture)
    IN  IF tex = 0 \/ numMips = 1 THEN g
        ELSE LET g1 == IF bindTexture THEN GlBindTexture(g, tex) ELSE g
                 baseLevel == IF mipLevelArg < 0 THEN 0 ELSE mipLevelArg
                 maxLevel == IF mipLevelArg < 0 THEN numMips - 1
                             ELSE mipLevelArg
             IN  GlTexLevels(g1, baseLevel, maxLevel)

\* SetMipmapLevel() clamping to numMips, one past the last level
SetMipmapLevelClampCount(g, texture, mipLevelArg, bindTexture) ==
    LET tex == texture.glTextureHandle
        numMips == GetNumMips(texture)
    IN  IF tex = 0 \/ numMips = 1 THEN g
        ELSE LET g1 == IF bindTexture THEN GlBindTexture(g, tex) ELSE g
                 mipLevel == Min(mipLevelArg, numMips)
                 baseLevel == IF mipLevel < 0 THEN 0 ELSE mipLevel
                 maxLevel == IF mipLevel < 0 THEN numMips - 1 ELSE mipLevel
             IN  GlTexLevels(g1, baseLevel, maxLevel)

\* SetMipmapLevel(texture, mipLevel, bindTexture) on the GL state g
SetMipmapLevel(g, texture, mipLevelArg, bindTexture) ==
    LET tex == texture.glTextureHandle
        numMips == GetNumMips(texture)
    IN  IF tex = 0 \/ numMips = 1 THEN g
        ELSE LET g1 == IF bindTexture THEN GlBindTexture(g, tex) ELSE g
                 mipLevel == Min(mipLevelArg, numMips - 1)
                 baseLevel == IF mipLevel < 0 THEN 0 ELSE mipLevel
                 maxLevel == IF mipLevel < 0 THEN numMips - 1 ELSE mipLevel
             IN  GlTexLevels(g1, baseLevel, maxLevel)


(***************************************************************************)
(* Swizzle model.                                                          *)
(***************************************************************************)
\* SetSwizzleFromSimple() without its conversion to lowercase
ToLowerNone(c) == c

\* if(c >= 'A' && c <= 'Z') c += 32
ToLower(c) == IF c >= 65 /\ c <= 90 THEN c + 32 ELSE c

\* the for loop of SetSwizzleFromSimple, from index i (0-based) on
\* the loop with a default case that ends it like case '\0'
RECURSIVE SwizzleLoopInvalidStops(_, _, _)
SwizzleLoopInvalidStops(ss, i, args) ==
    IF i >= 4 THEN args
    ELSE LET c == ToLower(ss[i + 1])
             set(a) == SwizzleLoopInvalidStops(ss, i + 1,
                                               [args EXCEPT ![i + 1] = a])
         IN  CASE c = 48 -> set("0.0")
               [] c = 49 -> set("1.0")
               [] c \in {114, 120} -> set("c.r")
               [] c \in {103, 121} -> set("c.g")
               [] c \in {98, 122} -> set("c.b")
               [] c \in {97, 119} -> set("c.a")
               [] OTHER -> args

RECURSIVE SwizzleLoop(_, _, _)
SwizzleLoop(ss, i, args) ==
    IF i >= 4 THEN args
    ELSE LET c == ToLower(ss[i + 1])
             set(a) == SwizzleLoop(ss, i + 1, [args EXCEPT ![i + 1] = a])
         IN  CASE c = 48 -> set("0.0")
               [] c = 49 -> set("1.0")
               [] c \in {114, 120} -> set("c.r")
               [] c \in {103, 121} -> set("c.g")
               [] c \in {98, 122} -> set("c.b")
               [] c \in {97, 119} -> set("c.a")
               [] c = 0 -> SwizzleLoop(ss, 4 + 1, args)
               [] OTHER -> SwizzleLoop(ss, i + 1, args)

\* the loop with a case '\0' that only breaks out of the switch
RECURSIVE SwizzleLoopNoStop(_, _, _)
SwizzleLoopNoStop(ss, i, args) ==
    IF i >= 4 THEN args
    ELSE LET c == ToLower(ss[i + 1])
             set(a) == SwizzleLoopNoStop(ss, i + 1, [args EXCEPT ![i + 1] = a])
         IN  CASE c = 48 -> set("0.0")
               [] c = 49 -> set("1.0")
               [] c \in {114, 120} -> set("c.r")
               [] c \in {103, 121} -> set("c.g")
               [] c \in {98, 122} -> set("c.b")
               [] c \in {97, 119} -> set("c.a")
               [] OTHER -> SwizzleLoopNoStop(ss, i + 1, args)

SwizzleArgsNoStop(ss) ==
    SwizzleLoopNoStop(ss, 0, << "0.0", "0.0", "0.0", "1.0" >>)

\* const char* args[4] after the loop of SetSwizzleFromSimple()
SwizzleArgs(ss) == SwizzleLoop(ss, 0, << "0.0", "0.0", "0.0", "1.0" >>)

\* the text SetSwizzleFromSimple() leaves in swizzle
SetSwizzleFromSimple(ss) ==
    LET args == SwizzleArgs(ss)
    IN  "c = vec4(" \o args[1] \o ", " \o args[2] \o ", " \o args[3]
            \o ", " \o args[4] \o ");\n"

\* strncpy(simpleSwizzle, src, 4); simpleSwizzle[4] = '\0': src is a
\* C string without its terminator, the copy is padded with '\0'
StrncpySwizzle(src) ==
    [ i \in 1..5 |-> IF i <= 4 /\ i <= Len(src) THEN src[i] ELSE 0 ]

\* "rgba" and "rgb1" with their terminators
SwizzleRGBA == << 114, 103, 98, 97, 0 >>
SwizzleRGB1 == << 114, 103, 98, 49, 0 >>

(***************************************************************************)
(* Shader synthesizer.                                                     *)
(***************************************************************************)
\* what the driver does with one UpdateShaders() call
CompileStatus == { "ok", "compileFail", "createFail" }
ShaderOutcomes ==
    { o \in [ vs : CompileStatus, fs : CompileStatus,
              prog : BOOLEAN, link : BOOLEAN ] :
        /\ o.vs # "ok" => o.fs = "ok"
        /\ (o.vs # "ok" \/ o.fs # "ok") => o.prog
        /\ (o.vs # "ok" \/ o.fs # "ok" \/ ~o.prog) => o.link }
OutcomeOK(o) == o.vs = "ok" /\ o.fs = "ok" /\ o.prog /\ o.link

\* CompileShader() without the glDeleteShader() of a shader that failed to
\* compile
CompileShaderNoDelete(g, status) ==
    IF status = "createFail" THEN [ gl |-> g, shader |-> 0, made |-> {} ]
    ELSE LET shader == NewObjectName(g)
         IN  [ gl |-> GlCreateShader(g, shader),
               shader |-> IF status # "ok" THEN 0 ELSE shader,
               made |-> {shader} ]

\* CompileShader(): [gl, shader], and made: the object it created.  When glCreateShader() fails the function
\* returns 0 whatever the unset status variable holds, and no object exists.
CompileShader(g, status) ==
    IF status = "createFail" THEN [ gl |-> g, shader |-> 0, made |-> {} ]
    ELSE LET shader == NewObjectName(g)
             g1 == GlCreateShader(g, shader)
         IN  IF status # "ok"
             THEN [ gl |-> GlDeleteShader(g1, shader), shader |-> 0,
                    made |-> {shader} ]
             ELSE [ gl |-> g1, shader |-> shader, made |-> {shader} ]

\* CreateShaderProgram(): [gl, prog]
CreateShaderProgram(g, shaders, src, createOk, linkOk) ==
    IF ~createOk THEN [ gl |-> g, prog |-> 0 ]
    ELSE LET prog == NewObjectName(g)
             g1 == GlCreateProgram(g, prog)
             g2 == GlAttachShader(g1, prog, shaders[1])
             g3 == GlAttachShader(g2, prog, shaders[2])
         IN  IF ~linkOk
             THEN LET g4 == GlDeleteProgram(g3, prog)
                      g5 == GlDetachShader(g4, prog, shaders[1])
                      g6 == GlDetachShader(g5, prog, shaders[2])
                  IN  [ gl |-> g6, prog |-> 0 ]
             ELSE [ gl |-> GlLinkProgram(g3, prog, src), prog |-> prog ]

Stpq(n) == CASE n = 2 -> "st" [] n = 3 -> "stp" [] n = 4 -> "stpq"

\* typePrefix set from isUnsigned whether or not the format is an integer one
TypePrefixAlways(tex) == tex.file.intKind

\* Texture::GetIntTexInfo(): the divisor text, "" for nullptr
IsIntTexture(tex) == tex.file.normDiv # ""
TypePrefix(tex) == IF IsIntTexture(tex) THEN tex.file.intKind ELSE ""
SamplerBaseType(tex) == IF IsCubemap(tex) THEN "samplerCube" ELSE "sampler2D"
TypePostfix(tex) == IF IsArray(tex) THEN "Array" ELSE ""
NumTexCoords(tex) ==
    (IF IsCubemap(tex) THEN 3 ELSE 2) + (IF IsArray(tex) THEN 1 ELSE 0)

GlslVersion(tex) ==
    IF IsCubemap(tex) /\ IsArray(tex)
    THEN "#version 150 compatibility\n"
             \o "#extension GL_ARB_texture_cube_map_array : enable\n"
    ELSE "#version 150 compatibility\n"

SamplerUniform(tex) ==
    "uniform " \o TypePrefix(tex) \o SamplerBaseType(tex) \o TypePostfix(tex)
        \o " tex0;\n"

TexSampleAndNormalize(tex) ==
    IF IsIntTexture(tex)
    THEN " " \o TypePrefix(tex) \o "vec4 v = texture( tex0, texCoord."
             \o Stpq(NumTexCoords(tex)) \o " );\n"
             \o " vec4 c = vec4(v) / " \o tex.file.normDiv \o ";\n"
    ELSE " vec4 c = texture( tex0, texCoord." \o Stpq(NumTexCoords(tex))
             \o " );\n"

\* the tail of UpdateShaders() without its if(prog == 0) return false
InstallProgramUnchecked(g, sp, prog) ==
    LET g1 == IF sp # 0 THEN GlDeleteProgram(g, sp) ELSE g
    IN  [ gl |-> GlUseProgram(g1, prog), shaderProgram |-> prog,
          ok |-> prog # 0 ]

\* the tail of UpdateShaders(): the new program replaces the current one
InstallProgram(g, sp, prog) ==
    IF prog = 0 THEN [ gl |-> g, shaderProgram |-> sp, ok |-> FALSE ]
    ELSE LET g1 == IF sp # 0 THEN GlDeleteProgram(g, sp) ELSE g
         IN  [ gl |-> GlUseProgram(g1, prog), shaderProgram |-> prog,
               ok |-> TRUE ]

\* UpdateShaders() on the state st = [gl, shaderProgram, texSampleAndNormalize,
\* swizzle], with the outcome o of the driver.  created: the shader objects
\* the call made.
UpdateShaders(st, tex, useSimple, ss, o) ==
    LET vs == CompileShader(st.gl, o.vs)
    IN  IF vs.shader = 0
        THEN [ st EXCEPT !.gl = vs.gl ] @@ [ ok |-> FALSE, created |-> vs.made ]
        ELSE
        LET tsn == TexSampleAndNormalize(tex)
            swz == IF useSimple THEN SetSwizzleFromSimple(ss) ELSE st.swizzle
            src == [ version |-> GlslVersion(tex),
                     sampler |-> SamplerUniform(tex), sample |-> tsn ]
            fs == CompileShader(vs.gl, o.fs)
        IN  IF fs.shader = 0
            THEN [ gl |-> GlDeleteShader(fs.gl, vs.shader),
                   shaderProgram |-> st.shaderProgram,
                   texSampleAndNormalize |-> tsn, swizzle |-> swz,
                   ok |-> FALSE, created |-> vs.made \cup fs.made ]
            ELSE
            LET cp == CreateShaderProgram(fs.gl, <<vs.shader, fs.shader>>,
                                          src, o.prog, o.link)
                g1 == GlDeleteShader(cp.gl, vs.shader)
                g2 == GlDeleteShader(g1, fs.shader)
                ip == InstallProgram(g2, st.shaderProgram, cp.prog)
            IN  [ gl |-> ip.gl, shaderProgram |-> ip.shaderProgram,
                  texSampleAndNormalize |-> tsn, swizzle |-> swz,
                  ok |-> ip.ok, created |-> vs.made \cup fs.made ]


(***************************************************************************)
(* Exact arithmetic on the numbers (a + b*sqrt(2)) / d, d > 0, which are   *)
(* closed under the additions and the sqrt(2) factors of the zoom          *)
(* controller.  A rational has b = 0.                                      *)
(***************************************************************************)
Abs(n) == IF n < 0 THEN -n ELSE n

RECURSIVE GCD(_, _)
GCD(m, n) == IF n = 0 THEN m ELSE GCD(n, m % n)

QNorm(a, b, d) ==
    LET g == GCD(GCD(Abs(a), Abs(b)), d)
    IN  [ a |-> a \div g, b |-> b \div g, d |-> d \div g ]

Q(n, d) == QNorm(n, 0, d)
QSub(x, y) == QNorm(x.a * y.d - y.a * x.d, x.b * y.d - y.b * x.d, x.d * y.d)
QAdd(x, y) == QNorm(x.a * y.d + y.a * x.d, x.b * y.d + y.b * x.d, x.d * y.d)
\* x * n / m for integers n, m > 0
QScale(x, n, m) == QNorm(x.a * n, x.b * n, x.d * m)
QMulSqrt2(x) == QNorm(2 * x.b, x.a, x.d)
QDivSqrt2(x) == QNorm(2 * x.b, x.a, 2 * x.d)

\* p / q > sqrt(2) for integers p, q > 0, by the continued fraction of
\* sqrt(2): p/q = 1 + r/q with r = p - q, and r/q > sqrt(2) - 1 exactly when
\* (q - r)/r < sqrt(2)
RECURSIVE GtSqrt2(_, _)
GtSqrt2(p, q) ==
    IF p <= q THEN FALSE
    ELSE IF p >= 2 * q THEN TRUE
    ELSE ~GtSqrt2(2 * q - p, p - q)

\* the sign of a + b*sqrt(2)
QSign(x) ==
    IF x.a >= 0 /\ x.b >= 0 THEN (IF x.a = 0 /\ x.b = 0 THEN 0 ELSE 1)
    ELSE IF x.a <= 0 /\ x.b <= 0 THEN -1
    ELSE IF x.a > 0 THEN (IF GtSqrt2(x.a, -x.b) THEN 1 ELSE -1)
    ELSE (IF GtSqrt2(-x.a, x.b) THEN -1 ELSE 1)

QLess(x, y) == QSign(QSub(x, y)) < 0
QLeq(x, y) == QSign(QSub(x, y)) <= 0
QAbs(x) == IF QSign(x) < 0 THEN QScale(x, -1, 1) ELSE x
QMin(x, y) == IF QLess(y, x) THEN y ELSE x

\* round(x) of <math.h> for x >= 0: the integer n with n <= x + 1/2 < n + 1
QRound(x) ==
    CHOOSE n \in 0..((Abs(x.a) + 2 * Abs(x.b)) \div x.d + 1) :
        /\ QLeq(Q(2 * n - 1, 2), x)
        /\ QLess(x, Q(2 * n + 1, 2))

\* floor(x) of a rational x
QFloor(x) == x.a \div x.d

(***************************************************************************)
(* Zoom controller.                                                        *)
(***************************************************************************)
\* a stepping stage whose decrease uses the bands of the increase
ZoomStepSameBands(zl, increase) ==
    IF QLeq(Q(2, 1), zl)
    THEN (IF increase THEN QAdd(zl, Q(1, 2)) ELSE QSub(zl, Q(1, 2)))
    ELSE IF QLeq(Q(1, 1), zl)
    THEN (IF increase THEN QAdd(zl, Q(1, 4)) ELSE QSub(zl, Q(1, 4)))
    ELSE IF QLeq(Q(1, 8), zl)
    THEN (IF increase THEN QAdd(zl, Q(1, 8)) ELSE QSub(zl, Q(1, 8)))
    ELSE (IF increase THEN QMulSqrt2(zl) ELSE QDivSqrt2(zl))

\* a stepping stage whose increase compares with > instead of >=
ZoomStepStrict(zl, increase) ==
    IF increase
    THEN IF QLess(Q(2, 1), zl) THEN QAdd(zl, Q(1, 2))
         ELSE IF QLess(Q(1, 1), zl) THEN QAdd(zl, Q(1, 4))
         ELSE IF QLess(Q(1, 8), zl) THEN QAdd(zl, Q(1, 8))
         ELSE QMulSqrt2(zl)
    ELSE IF QLeq(zl, Q(1, 8)) THEN QDivSqrt2(zl)
         ELSE IF QLeq(zl, Q(1, 1)) THEN QSub(zl, Q(1, 8))
         ELSE IF QLeq(zl, Q(2, 1)) THEN QSub(zl, Q(1, 4))
         ELSE QSub(zl, Q(1, 2))

\* a stepping stage whose decrease compares with < instead of <=
ZoomStepDecStrict(zl, increase) ==
    IF increase
    THEN IF QLeq(Q(2, 1), zl) THEN QAdd(zl, Q(1, 2))
         ELSE IF QLeq(Q(1, 1), zl) THEN QAdd(zl, Q(1, 4))
         ELSE IF QLeq(Q(1, 8), zl) THEN QAdd(zl, Q(1, 8))
         ELSE QMulSqrt2(zl)
    ELSE IF QLess(zl, Q(1, 8)) THEN QDivSqrt2(zl)
         ELSE IF QLess(zl, Q(1, 1)) THEN QSub(zl, Q(1, 8))
         ELSE IF QLess(zl, Q(2, 1)) THEN QSub(zl, Q(1, 4))
         ELSE QSub(zl, Q(1, 2))

\* the stepping stage of CalcZoomLevel()
ZoomStep(zl, increase) ==
    IF increase
    THEN IF QLeq(Q(2, 1), zl) THEN QAdd(zl, Q(1, 2))
         ELSE IF QLeq(Q(1, 1), zl) THEN QAdd(zl, Q(1, 4))
         ELSE IF QLeq(Q(1, 8), zl) THEN QAdd(zl, Q(1, 8))
         ELSE QMulSqrt2(zl)
    ELSE IF QLeq(zl, Q(1, 8)) THEN QDivSqrt2(zl)
         ELSE IF QLeq(zl, Q(1, 1)) THEN QSub(zl, Q(1, 8))
         ELSE IF QLeq(zl, Q(2, 1)) THEN QSub(zl, Q(1, 4))
         ELSE QSub(zl, Q(1, 2))

\* the snapping stage of CalcZoomLevel()
ZoomSnap(zl) ==
    IF QLeq(Q(1, 1), zl)
    THEN LET nearestHalf == Q(QRound(QScale(zl, 2, 1)), 2)
         IN  IF QLeq(QAbs(QSub(nearestHalf, zl)),
                     QMin(Q(1, 4), QScale(zl, 1, 10)))
             THEN nearestHalf ELSE zl
    ELSE IF QLess(Q(1, 4), zl)
    THEN LET nearestEighth == Q(QRound(QScale(zl, 8, 1)), 8)
         IN  IF QLeq(QAbs(QSub(nearestEighth, zl)), Q(1, 20))
             THEN nearestEighth ELSE zl
    ELSE zl

\* CalcZoomLevel() returning the stepped value as it is
CalcZoomLevelNoSnap(zl, increase) == ZoomStep(zl, increase)

\* CalcZoomLevel(zl, increase)
CalcZoomLevel(zl, increase) == ZoomSnap(ZoomStep(zl, increase))

\* +infinity, the IEEE quotient of a positive number by zero
QInfinity == [ a |-> 1, b |-> 0, d |-> 0 ]

\* ZoomFitToWindow() fitting the other dimension: the larger of the two
\* ratios
ZoomFitToWindowLarger(disp, menuWidth, texW, texH, isCube) ==
    LET tw == IF isCube THEN texW * 4 ELSE texW
        th == IF isCube THEN texH * 3 ELSE texH
        winW == disp[1] - menuWidth
    IN  IF tw = 0 \/ th = 0
        THEN [ zoomLevel |-> QInfinity, transX |-> 0, transY |-> 0 ]
        ELSE IF QLess(Q(disp[2], th), Q(winW, tw))
        THEN [ zoomLevel |-> Q(winW, tw), transX |-> 0,
               transY |-> QFloor(Q(disp[2] * tw - th * winW, 2 * winW)) ]
        ELSE [ zoomLevel |-> Q(disp[2], th),
               transX |-> IF isCube THEN 0
                          ELSE QFloor(Q(winW * th - tw * disp[2],
                                        2 * disp[2])),
               transY |-> 0 ]

\* ZoomFitToWindow(): [zoomLevel, transX, transY] for a texture of size
\* tw x th in a framebuffer of disp = <<display_w, display_h>> wider than the
\* sidebar.  A default-constructed texture has size 0 x 0: both ratios are
\* +infinity, zw < zh is false, and winW / zh - tw is 0.
ZoomFitToWindow(disp, menuWidth, texW, texH, isCube) ==
    LET tw == IF isCube THEN texW * 4 ELSE texW
        th == IF isCube THEN texH * 3 ELSE texH
        winW == disp[1] - menuWidth
        zw == Q(winW, tw)
        zh == Q(disp[2], th)
    IN  IF tw = 0 \/ th = 0
        THEN [ zoomLevel |-> QInfinity, transX |-> 0, transY |-> 0 ]
        ELSE IF QLess(zw, zh)
        THEN [ zoomLevel |-> zw, transX |-> 0,
               \* display_h / zw - th = (display_h * tw - th * winW) / winW
               transY |-> QFloor(Q(disp[2] * tw - th * winW, 2 * winW)) ]
        ELSE [ zoomLevel |-> zh,
               transX |-> IF isCube THEN 0
                          ELSE QFloor(Q(winW * th - tw * disp[2],
                                        2 * disp[2])),
               transY |-> 0 ]


(***************************************************************************)
(* Texture loading.                                                        *)
(***************************************************************************)
\* LoadTexture(path) on the whole state; file: what the path holds, loadOk:
\* Texture::Load() succeeds, uploadOk: CreateOpenGLtexture() succeeds,
\* o: the driver's outcome of the UpdateShaders() call
LoadTexture(file, loadOk, uploadOk, o) ==
    IF ~loadOk
    THEN /\ UNCHANGED << curTex, gl, shaderProgram, texSampleAndNormalize,
                         swizzle, simpleSwizzle, useSimpleSwizzle, mipmapLevel,
                         textureArrayIndex, spacingBetweenMips, zoomLevel,
                         transX, transY >>
         /\ lastOp' = [ op |-> "LoadTexture", loadOk |-> FALSE,
                        uploadOk |-> FALSE, shaderRan |-> FALSE,
                        shaderOk |-> FALSE, created |-> {} ]
    ELSE
    \E up \in { CreateOpenGLtexture(
                     TextureRelease(gl, curTex),   \* curTex = std::move(newTex)
                     [ file |-> file, glTextureHandle |-> 0 ], uploadOk) } :
    LET numMips == GetNumMips(up.tex)
        mml == IF numMips > 1 /\ mipmapLevel # -1 THEN 0 ELSE mipmapLevel
        g2 == IF numMips > 1 THEN SetMipmapLevel(up.gl, up.tex, mml, FALSE)
              ELSE up.gl
        fit == ZoomFitToWindow(display, imGuiMenuWidth, file.w, file.h, TRUE)
        ss == IF file.defaultSwizzle # << >>
              THEN StrncpySwizzle(file.defaultSwizzle)
              ELSE IF file.hasAlpha THEN SwizzleRGBA ELSE SwizzleRGB1
    IN  \E us \in { UpdateShaders(
                       [ gl |-> g2, shaderProgram |-> shaderProgram,
                         texSampleAndNormalize |-> texSampleAndNormalize,
                         swizzle |-> "" ],
                       up.tex, TRUE, ss, o) } :
        /\ curTex' = up.tex
        /\ mipmapLevel' = mml
        /\ IF IsCubemap(up.tex)
           THEN /\ zoomLevel' = fit.zoomLevel
                /\ transX' = fit.transX
                /\ transY' = fit.transY
                /\ spacingBetweenMips' = 0
           ELSE /\ UNCHANGED << zoomLevel, transX, transY >>
                /\ spacingBetweenMips' = 2
        /\ textureArrayIndex' = 0
        /\ simpleSwizzle' = ss
        /\ useSimpleSwizzle' = TRUE
        /\ gl' = us.gl
        /\ shaderProgram' = us.shaderProgram
        /\ texSampleAndNormalize' = us.texSampleAndNormalize
        /\ swizzle' = us.swizzle
        /\ lastOp' = [ op |-> "LoadTexture", loadOk |-> TRUE,
                       uploadOk |-> uploadOk, shaderRan |-> TRUE,
                       shaderOk |-> us.ok, created |-> us.created ]


(***************************************************************************)
(* Drawing.  A draw state is [gl, tiles]; a tile records the arguments of  *)
(* one DrawQuad / DrawCubeQuad call that reached glBegin(), with the mip   *)
(* range of the texture before the call and at the time of the draw.       *)
(* Positions and sizes are in half pixels (the native-size compact layout  *)
(* steps by halves of a mip's size).                                       *)
(***************************************************************************)
ViewModes ==
    { "SINGLE", "MIPMAPS_COMPACT", "MIPMAPS_ROW", "MIPMAPS_COLUMN", "TILED" }

\* enum CubeFaceIndex
FI_XPOS == 0
FI_XNEG == 1
FI_YPOS == 2
FI_YNEG == 3
FI_ZPOS == 4
FI_ZNEG == 5

\* DrawQuad / DrawCubeQuad handing their mipLevel argument on as it is
QuadMipLevelRaw(mipLevel) == mipLevel

\* the level DrawQuad / DrawCubeQuad hand to SetMipmapLevel()
QuadMipLevel(mipLevel) == IF mipLevel < 0 THEN mipmapLevel ELSE mipLevel

DrawTile(ds, texture, mipLevel, faceIndex, arrayIndex, pos, size) ==
    LET tex == texture.glTextureHandle
    IN  IF tex = 0 THEN ds
        ELSE LET g1 == GlBindTexture(ds.gl, tex)
                 g2 == SetMipmapLevel(g1, texture, QuadMipLevel(mipLevel),
                                      FALSE)
             IN  [ gl |-> g2,
                   tiles |-> Append(ds.tiles,
                       [ mipLevel |-> mipLevel, faceIndex |-> faceIndex,
                         arrayIndex |-> arrayIndex,
                         x |-> pos[1], y |-> pos[2],
                         w |-> size[1], h |-> size[2],
                         srgb |-> ds.gl.srgb,
                         baseBefore |-> ds.gl.base[tex],
                         maxBefore |-> ds.gl.max[tex],
                         base |-> g2.base[tex], max |-> g2.max[tex] ]) ]

DrawQuad(ds, texture, mipLevel, arrayIndex, pos, size) ==
    DrawTile(ds, texture, mipLevel, -1, arrayIndex, pos, size)

DrawCubeQuad(ds, texture, mipLevel, faceIndex, arrayIndex, pos, size) ==
    DrawTile(ds, texture, mipLevel, faceIndex, arrayIndex, pos, size)

\* middleIndices with FI_ZPOS in place of FI_ZNEG
MiddleIndicesTwice(i) ==
    CASE i = 0 -> FI_XNEG [] i = 1 -> FI_ZPOS [] i = 2 -> FI_XPOS
      [] i = 3 -> FI_ZPOS

\* const int middleIndices[4], 0-based
MiddleIndices(i) ==
    CASE i = 0 -> FI_XNEG [] i = 1 -> FI_ZPOS [] i = 2 -> FI_XPOS
      [] i = 3 -> FI_ZNEG

\* the middle row drawn from middleIndices[0] on, whatever the variant
RECURSIVE CubeMiddleFromZero(_, _, _, _, _, _)
CubeMiddleFromZero(ds, tex, i, n, posX, offset) ==
    IF i >= n THEN ds
    ELSE CubeMiddleFromZero(
             DrawCubeQuad(ds, tex, -1, MiddleIndices((i + 4 - n) % 4),
                          textureArrayIndex, <<posX, offset>>,
                          <<2 * tex.file.w, 2 * tex.file.h>>),
             tex, i + 1, n, posX + offset, offset)

\* the middle row of the cube cross: for(i = cubeCrossVariant; i < n; ++i)
RECURSIVE CubeMiddle(_, _, _, _, _, _)
CubeMiddle(ds, tex, i, n, posX, offset) ==
    IF i >= n THEN ds
    ELSE CubeMiddle(
             DrawCubeQuad(ds, tex, -1, MiddleIndices(i % 4), textureArrayIndex,
                          <<posX, offset>>,
                          <<2 * tex.file.w, 2 * tex.file.h>>),
             tex, i + 1, n, posX + offset, offset)

\* ceil(sqrtf(numMips * texH / texW))
NumHor(numMips, texW, texH) ==
    CHOOSE n \in 0..(numMips * texH + 1) :
        /\ n * n * texW >= numMips * texH
        /\ \A m \in 0..(n - 1) : m * m * texW < numMips * texH

\* the loop without hOffset = -hOffset at the end of a row
RECURSIVE CompactSameOneWay(_, _, _, _, _, _, _)
CompactSameOneWay(ds, tex, i, numHor, posX, posY, hOffset) ==
    IF i >= GetNumMips(tex) THEN ds
    ELSE LET d == DrawQuad(ds, tex, i, textureArrayIndex, <<posX, posY>>,
                           <<2 * tex.file.w, 2 * tex.file.h>>)
             vOffset == 2 * (tex.file.h + spacingBetweenMips)
         IN  IF (i + 1) % numHor = 0
             THEN CompactSameOneWay(d, tex, i + 1, numHor, posX,
                                    posY + vOffset, hOffset)
             ELSE CompactSameOneWay(d, tex, i + 1, numHor, posX + hOffset,
                                    posY, hOffset)

\* the loop of the MIPMAPS_COMPACT layout at the same size
RECURSIVE CompactSame(_, _, _, _, _, _, _)
CompactSame(ds, tex, i, numHor, posX, posY, hOffset) ==
    IF i >= GetNumMips(tex) THEN ds
    ELSE LET d == DrawQuad(ds, tex, i, textureArrayIndex, <<posX, posY>>,
                           <<2 * tex.file.w, 2 * tex.file.h>>)
             vOffset == 2 * (tex.file.h + spacingBetweenMips)
         IN  IF (i + 1) % numHor = 0
             THEN CompactSame(d, tex, i + 1, numHor, posX, posY + vOffset,
                              -hOffset)
             ELSE CompactSame(d, tex, i + 1, numHor, posX + hOffset, posY,
                              hOffset)

\* the loop of MIPMAPS_ROW / MIPMAPS_COLUMN at the same size
RECURSIVE LineSame(_, _, _, _, _, _, _)
LineSame(ds, tex, i, posX, posY, hOffset, vOffset) ==
    IF i >= GetNumMips(tex) THEN ds
    ELSE LineSame(DrawQuad(ds, tex, i, textureArrayIndex, <<posX, posY>>,
                           <<2 * tex.file.w, 2 * tex.file.h>>),
                  tex, i + 1, posX + hOffset, posY + vOffset, hOffset, vOffset)

\* space = std::max(minSpace, std::min(float(spacingBetweenMips), v * 0.5f)),
\* in half pixels, for a mip extent v in pixels
MipSpace(v) ==
    Max(2 * Min(2, spacingBetweenMips), Min(2 * spacingBetweenMips, v))

\* the loop of the MIPMAPS_COMPACT layout at native sizes
RECURSIVE CompactNative(_, _, _, _, _, _)
CompactNative(ds, tex, i, toRight, posX, posY) ==
    IF i >= GetNumMips(tex) THEN ds
    ELSE LET sz == GetMipSize(tex, i)
             d == DrawQuad(ds, tex, i, textureArrayIndex, <<posX, posY>>,
                           <<2 * sz[1], 2 * sz[2]>>)
         IN  IF (toRight /\ i % 2 = 0) \/ (~toRight /\ i % 2 = 1)
             THEN CompactNative(d, tex, i + 1, toRight,
                                posX + MipSpace(sz[1]) + 2 * sz[1], posY)
             ELSE CompactNative(d, tex, i + 1, toRight,
                                posX, posY + MipSpace(sz[2]) + 2 * sz[2])

\* the loop of MIPMAPS_ROW / MIPMAPS_COLUMN at native sizes
RECURSIVE LineNative(_, _, _, _, _, _)
LineNative(ds, tex, i, inRow, posX, posY) ==
    IF i >= GetNumMips(tex) THEN ds
    ELSE LET sz == GetMipSize(tex, i)
             d == DrawQuad(ds, tex, i, textureArrayIndex, <<posX, posY>>,
                           <<2 * sz[1], 2 * sz[2]>>)
         IN  IF inRow
             THEN LineNative(d, tex, i + 1, inRow,
                             posX + 2 * (spacingBetweenMips + sz[1]), posY)
             ELSE LineNative(d, tex, i + 1, inRow,
                             posX, posY + 2 * (spacingBetweenMips + sz[2]))

\* the quads of DrawTexture(), after glUseProgram(shaderProgram)
DrawTextureTiles(ds, tex) ==
    LET texW == tex.file.w
        texH == tex.file.h
        full == <<2 * texW, 2 * texH>>
    IN  IF IsCubemap(tex)
        THEN LET offset == 2 * (texW + spacingBetweenMips)
                 d1 == DrawCubeQuad(ds, tex, -1, FI_YPOS, textureArrayIndex,
                                    <<offset, 0>>, full)
                 d2 == CubeMiddle(d1, tex, cubeCrossVariant,
                                  cubeCrossVariant + 4, 0, offset)
             IN  DrawCubeQuad(d2, tex, -1, FI_YNEG, textureArrayIndex,
                              <<offset, 2 * offset>>, full)
        ELSE IF viewMode = "SINGLE"
        THEN DrawQuad(ds, tex, -1, textureArrayIndex, <<0, 0>>, full)
        ELSE IF viewMode = "TILED"
        THEN DrawQuad(ds, tex, -1, textureArrayIndex, <<0, 0>>,
                      <<2 * texW * numTiles[1], 2 * texH * numTiles[2]>>)
        ELSE IF viewAtSameSize
        THEN IF viewMode = "MIPMAPS_COMPACT"
             THEN CompactSame(ds, tex, 0,
                              NumHor(GetNumMips(tex), texW, texH), 0, 0,
                              2 * (texW + spacingBetweenMips))
             ELSE LineSame(ds, tex, 0, 0, 0,
                      IF viewMode = "MIPMAPS_ROW"
                      THEN 2 * (texW + spacingBetweenMips) ELSE 0,
                      IF viewMode = "MIPMAPS_ROW"
                      THEN 0 ELSE 2 * (texH + spacingBetweenMips))
        ELSE IF viewMode = "MIPMAPS_COMPACT"
             \* toRight = (texW / texH <= 1.2f)
             THEN CompactNative(ds, tex, 0, 5 * texW <= 6 * texH, 0, 0)
             ELSE LineNative(ds, tex, 0, viewMode = "MIPMAPS_ROW", 0, 0)

\* glEnable / glDisable(GL_FRAMEBUFFER_SRGB)
GlFramebufferSRGB(g, on) == [g EXCEPT !.srgb = on]

\* DrawTexture() whose return after the cube cross leaves the sRGB state as
\* it is
DrawTextureCubeReturn(g, tex) ==
    LET enableSRGB == IF overrideSRGB # -1 THEN overrideSRGB # 0
                      ELSE tex.file.isSRGB
        g1 == GlFramebufferSRGB(g, enableSRGB)
        g2 == GlUseProgram(g1, shaderProgram)
        ds == DrawTextureTiles([ gl |-> g2, tiles |-> << >> ], tex)
    IN  IF IsCubemap(tex)
        THEN [ gl |-> ds.gl, tiles |-> ds.tiles ]
        ELSE [ gl |-> GlFramebufferSRGB(ds.gl, FALSE), tiles |-> ds.tiles ]

\* DrawTexture(): [gl, tiles]; the cube cross returns early, after its own
\* glDisable(GL_FRAMEBUFFER_SRGB)
DrawTexture(g, tex) ==
    LET enableSRGB == IF overrideSRGB # -1 THEN overrideSRGB # 0
                      ELSE tex.file.isSRGB
        g1 == GlFramebufferSRGB(g, enableSRGB)
        g2 == GlUseProgram(g1, shaderProgram)
        ds == DrawTextureTiles([ gl |-> g2, tiles |-> << >> ], tex)
    IN  IF IsCubemap(tex)
        THEN [ gl |-> GlFramebufferSRGB(ds.gl, FALSE), tiles |-> ds.tiles ]
        ELSE [ gl |-> GlFramebufferSRGB(ds.gl, FALSE), tiles |-> ds.tiles ]


(***************************************************************************)
(* The program: main() loads argv[1] if given, then loops over             *)
(* GenericFrame (drawing) and ImGuiFrame (one user interaction per frame). *)
(***************************************************************************)
\* glfwCreateWindow(1280, 720, ...)
DisplayW == 1280
DisplayH == 720
\* ImGui::GetWindowWidth() of the sidebar
SidebarWidth == 300

\* texts typed into the advanced swizzle editor
EditorTexts == { "c = c.bgra;\n", "c = " }
\* texts typed into the simple swizzle field: "", "bg", "Ra01"
SimpleTexts == { << >>, << 98, 103 >>, << 82, 97, 48, 49 >> }

viewVars == << viewMode, viewAtSameSize, cubeCrossVariant, numTiles,
               overrideSRGB >>
zoomVars == << zoomLevel, transX, transY >>
shaderVars == << gl, shaderProgram, texSampleAndNormalize, swizzle >>
loadVars == << curTex, simpleSwizzle, useSimpleSwizzle, mipmapLevel,
               textureArrayIndex, spacingBetweenMips >>

Op(name) ==
    [ op |-> name, loadOk |-> FALSE, uploadOk |-> FALSE, shaderRan |-> FALSE,
      shaderOk |-> FALSE, created |-> {} ]

Init ==
    /\ curTex = EmptyTexture
    /\ gl = GlInit
    /\ shaderProgram = 0
    /\ texSampleAndNormalize = ""
    /\ swizzle = ""
    /\ simpleSwizzle = << 0, 0, 0, 0, 0 >>
    /\ useSimpleSwizzle = TRUE
    /\ showGLSLeditWindow = FALSE
    /\ glslAppearing = TRUE
    /\ buf = ""
    /\ mipmapLevel = -1
    /\ textureArrayIndex = 0
    /\ spacingBetweenMips = 2
    /\ viewMode = "SINGLE"
    /\ viewAtSameSize = TRUE
    /\ cubeCrossVariant = 0
    /\ numTiles = << 2, 2 >>
    /\ overrideSRGB = -1
    /\ zoomLevel = Q(1, 1)
    /\ transX = 10
    /\ transY = 10
    /\ imGuiMenuWidth = 0
    /\ display = << DisplayW, DisplayH >>
    /\ pc = "start"
    /\ tiles = << >>
    /\ lastOp = Op("Init")

\* what the decoder, the upload and the driver do in one LoadTexture() call
LoadOutcomes ==
    { lo \in [ loadOk : BOOLEAN, uploadOk : BOOLEAN, o : ShaderOutcomes ] :
        ~lo.loadOk => (lo.uploadOk /\ OutcomeOK(lo.o)) }

\* main(): if(argc > 1) LoadTexture(argv[1]), for a path among files and
\* what happens among outcomes
StartLoadOf(files, outcomes) ==
    /\ pc = "start"
    /\ \E file \in files, lo \in outcomes :
           LoadTexture(file, lo.loadOk, lo.uploadOk, lo.o)
    /\ pc' = "draw"
    /\ UNCHANGED << viewVars, showGLSLeditWindow, glslAppearing, buf,
                    imGuiMenuWidth, display, tiles >>

StartPlain ==
    /\ pc = "start"
    /\ pc' = "draw"
    /\ lastOp' = Op("Start")
    /\ UNCHANGED << viewVars, zoomVars, shaderVars, loadVars,
                    showGLSLeditWindow, glslAppearing, buf, imGuiMenuWidth,
                    display, tiles >>

GenericFrame ==
    /\ pc = "draw"
    /\ \E d \in { DrawTexture(gl, curTex) } :
           /\ gl' = d.gl
           /\ tiles' = d.tiles
    /\ pc' = "ui"
    /\ lastOp' = Op("GenericFrame")
    /\ UNCHANGED << viewVars, zoomVars, loadVars, shaderProgram,
                    texSampleAndNormalize, swizzle, showGLSLeditWindow,
                    glslAppearing, buf, imGuiMenuWidth, display >>

\* DrawGLSLeditWindow(): buf after the copy made when the window appears
BufShown == IF showGLSLeditWindow /\ glslAppearing THEN swizzle ELSE buf

\* what every ImGuiFrame does besides the interaction of that frame
UiFrame ==
    /\ pc = "ui"
    /\ pc' = "draw"
    /\ glslAppearing' = ~showGLSLeditWindow
    /\ imGuiMenuWidth' = SidebarWidth
    /\ UNCHANGED << display, tiles >>

UiIdle ==
    /\ UiFrame
    /\ buf' = BufShown
    /\ lastOp' = Op("Idle")
    /\ UNCHANGED << viewVars, zoomVars, shaderVars, loadVars,
                    showGLSLeditWindow >>

\* DrawSidebar(): "Open File" -> OpenFilePicker() -> LoadTexture(), for a
\* path among files and what happens among outcomes
UiOpenFileOf(files, outcomes) ==
    /\ UiFrame
    /\ buf' = BufShown
    /\ \E file \in files, lo \in outcomes :
           LoadTexture(file, lo.loadOk, lo.uploadOk, lo.o)
    /\ UNCHANGED << viewVars, showGLSLeditWindow >>

\* DrawGLSLeditWindow(): InputTextMultiline() reports an edit
UiEditorType ==
    /\ UiFrame
    /\ showGLSLeditWindow
    /\ \E t \in EditorTexts :
           /\ t # BufShown
           /\ buf' = t
           /\ swizzle' = t
    /\ lastOp' = Op("EditorType")
    /\ UNCHANGED << viewVars, zoomVars, loadVars, gl, shaderProgram,
                    texSampleAndNormalize, showGLSLeditWindow >>

\* the state the shader operators work on
ShaderState ==
    [ gl |-> gl, shaderProgram |-> shaderProgram,
      texSampleAndNormalize |-> texSampleAndNormalize, swizzle |-> swizzle ]

\* UpdateShaders() called from a handler
CallUpdateShaders(name, ss, o) ==
    \E us \in { UpdateShaders(ShaderState, curTex, useSimpleSwizzle, ss, o) } :
        /\ gl' = us.gl
        /\ shaderProgram' = us.shaderProgram
        /\ texSampleAndNormalize' = us.texSampleAndNormalize
        /\ swizzle' = us.swizzle
        /\ lastOp' = [ Op(name) EXCEPT !.shaderRan = TRUE, !.shaderOk = us.ok,
                                       !.created = us.created ]

\* DrawGLSLeditWindow(): "Apply" or Ctrl+Enter
UiEditorApply ==
    /\ UiFrame
    /\ showGLSLeditWindow
    /\ buf' = BufShown
    /\ \E o \in ShaderOutcomes : CallUpdateShaders("EditorApply", simpleSwizzle, o)
    /\ UNCHANGED << viewVars, zoomVars, loadVars, showGLSLeditWindow >>

\* DrawGLSLeditWindow(): "Close", Escape or the window's close button
UiEditorClose ==
    /\ UiFrame
    /\ showGLSLeditWindow
    /\ buf' = BufShown
    /\ showGLSLeditWindow' = FALSE
    /\ lastOp' = Op("EditorClose")
    /\ UNCHANGED << viewVars, zoomVars, shaderVars, loadVars >>

\* bounds of the zoom values: the slider's grid and largest value, and the
\* smallest value a step is taken from, 1 / MinZoomDen
ZoomGridDen == 80
MaxZoom == 3
MinZoomDen == 80
\* the largest coefficient of a zoom value (a + b*sqrt(2)) / d a step is
\* taken from
MaxCoef == 500
\* the largest value the "Spacing" slider is dragged to
MaxSpacing == 3
\* the smallest zoom the "View Mode" combo halves down to, 1 / HalvingDen
HalvingDen == 4

\* the C string in a char buffer
RECURSIVE CStr(_)
CStr(b) == IF b = << >> \/ Head(b) = 0 THEN << >> ELSE << Head(b) >> \o CStr(Tail(b))

\* ImGui::InputText() stores an edited text: the text and its terminator,
\* the bytes behind it stay as they were
StoreText(old, t) ==
    [ i \in 1..5 |-> IF i <= Len(t) THEN t[i]
                     ELSE IF i = Len(t) + 1 THEN 0 ELSE old[i] ]

\* DrawSidebar(): the "Swizzle" field reports an edit to a text among texts
UiSimpleTypeOf(texts) ==
    /\ UiFrame
    /\ useSimpleSwizzle
    /\ buf' = BufShown
    /\ \E t \in texts, o \in ShaderOutcomes :
           /\ t # CStr(simpleSwizzle)
           /\ simpleSwizzle' = StoreText(simpleSwizzle, t)
           /\ CallUpdateShaders("SimpleType", StoreText(simpleSwizzle, t), o)
    /\ UNCHANGED << viewVars, zoomVars, curTex, useSimpleSwizzle, mipmapLevel,
                    textureArrayIndex, spacingBetweenMips, showGLSLeditWindow >>

\* DrawSidebar(): "Edit advanced Swizzling"
UiEditAdvanced ==
    /\ UiFrame
    /\ ~useSimpleSwizzle
    /\ buf' = BufShown
    /\ showGLSLeditWindow' = TRUE
    /\ lastOp' = Op("EditAdvanced")
    /\ UNCHANGED << viewVars, zoomVars, shaderVars, loadVars >>

\* DrawSidebar(): the "Use advanced Swizzling" checkbox
UiToggleAdvanced ==
    /\ UiFrame
    /\ buf' = BufShown
    /\ useSimpleSwizzle' = ~useSimpleSwizzle
    /\ IF useSimpleSwizzle /\ simpleSwizzle[1] = 0
       THEN /\ simpleSwizzle' = SwizzleRGBA
            /\ swizzle' = SetSwizzleFromSimple(SwizzleRGBA)
       ELSE UNCHANGED << simpleSwizzle, swizzle >>
    /\ lastOp' = Op("ToggleAdvanced")
    /\ UNCHANGED << viewVars, zoomVars, curTex, mipmapLevel, textureArrayIndex,
                    spacingBetweenMips, gl, shaderProgram,
                    texSampleAndNormalize, showGLSLeditWindow >>

\* DrawSidebar(): the "View Mode" combo picks another mode
UiViewMode ==
    /\ UiFrame
    /\ ~IsCubemap(curTex)
    /\ buf' = BufShown
    /\ \E vMode \in ViewModes \ {viewMode} :
           /\ viewMode' = vMode
           /\ IF viewMode = "SINGLE"
              THEN /\ QLeq(Q(1, HalvingDen), QScale(zoomLevel, 1, 2))
                   /\ zoomLevel' = QScale(zoomLevel, 1, 2)
              ELSE UNCHANGED zoomLevel
    /\ lastOp' = Op("ViewMode")
    /\ UNCHANGED << viewAtSameSize, cubeCrossVariant, numTiles, overrideSRGB,
                    transX, transY, shaderVars, loadVars, showGLSLeditWindow >>

\* DrawSidebar(): the "Show MipMaps at same size" checkbox
UiSameSize ==
    /\ UiFrame
    /\ ~IsCubemap(curTex)
    /\ viewMode \notin { "SINGLE", "TILED" }
    /\ buf' = BufShown
    /\ viewAtSameSize' = ~viewAtSameSize
    /\ lastOp' = Op("SameSize")
    /\ UNCHANGED << viewMode, cubeCrossVariant, numTiles, overrideSRGB,
                    zoomVars, shaderVars, loadVars, showGLSLeditWindow >>

\* DrawSidebar(): the "View Mode##cube" slider, clamped to 0..3
UiCubeVariant ==
    /\ UiFrame
    /\ IsCubemap(curTex)
    /\ buf' = BufShown
    /\ \E v \in (0..3) \ {cubeCrossVariant} : cubeCrossVariant' = v
    /\ lastOp' = Op("CubeVariant")
    /\ UNCHANGED << viewMode, viewAtSameSize, numTiles, overrideSRGB,
                    zoomVars, shaderVars, loadVars, showGLSLeditWindow >>

\* DrawSidebar(): the "Mip Level" slider, clamped to -1..maxLevel
UiMipLevel ==
    /\ UiFrame
    /\ IsCubemap(curTex) \/ viewMode \in { "SINGLE", "TILED" }
    /\ buf' = BufShown
    /\ LET maxLevel == Max(0, GetNumMips(curTex) - 1)
           shown == IF mipmapLevel >= 0 THEN Min(mipmapLevel, maxLevel)
                    ELSE mipmapLevel
       IN  /\ maxLevel # 0
           /\ \E mipLevel \in (-1..maxLevel) \ {shown} :
                  /\ mipmapLevel' = mipLevel
                  /\ gl' = SetMipmapLevel(gl, curTex, mipLevel, TRUE)
    /\ lastOp' = Op("MipLevel")
    /\ UNCHANGED << viewVars, zoomVars, curTex, simpleSwizzle,
                    useSimpleSwizzle, textureArrayIndex, spacingBetweenMips,
                    shaderProgram, texSampleAndNormalize, swizzle,
                    showGLSLeditWindow >>

\* the "Array Index" slider without ImGuiSliderFlags_AlwaysClamp: a typed
\* value may lie past the last element
ArrayIndexValuesUnclamped(tex) == 0..GetNumElements(tex)

\* the values the "Array Index" slider gives: 0..numElems-1, typed values
\* are clamped (ImGuiSliderFlags_AlwaysClamp)
ArrayIndexValues(tex) == 0..(GetNumElements(tex) - 1)

\* DrawSidebar(): the "Array Index" slider, shown for array textures
UiArrayIndex ==
    /\ UiFrame
    /\ IsArray(curTex)
    /\ buf' = BufShown
    /\ \E idx \in ArrayIndexValues(curTex) \ {textureArrayIndex} :
           textureArrayIndex' = idx
    /\ lastOp' = Op("ArrayIndex")
    /\ UNCHANGED << viewVars, zoomVars, shaderVars, curTex, simpleSwizzle,
                    useSimpleSwizzle, mipmapLevel, spacingBetweenMips,
                    showGLSLeditWindow >>

\* DrawSidebar(): the "Spacing" slider, dragged within 0..32
UiSpacing ==
    /\ UiFrame
    /\ IsCubemap(curTex) \/ viewMode \notin { "SINGLE", "TILED" }
    /\ buf' = BufShown
    /\ \E sp \in (0..MaxSpacing) \ {spacingBetweenMips} :
           spacingBetweenMips' = sp
    /\ lastOp' = Op("Spacing")
    /\ UNCHANGED << viewVars, zoomVars, shaderVars, curTex, simpleSwizzle,
                    useSimpleSwizzle, mipmapLevel, textureArrayIndex,
                    showGLSLeditWindow >>

\* DrawSidebar(): the "sRGB" combo picks another entry
UiSRGB ==
    /\ UiFrame
    /\ buf' = BufShown
    /\ \E srgb \in (0..2) \ {overrideSRGB + 1} : overrideSRGB' = srgb - 1
    /\ lastOp' = Op("sRGB")
    /\ UNCHANGED << viewMode, viewAtSameSize, cubeCrossVariant, numTiles,
                    zoomVars, shaderVars, loadVars, showGLSLeditWindow >>

\* a zoom event: the record of the call and of its stepping stage
ZoomOp(name, increase) ==
    [ op |-> name, loadOk |-> FALSE, uploadOk |-> FALSE, shaderRan |-> FALSE,
      shaderOk |-> FALSE, created |-> {}, increase |-> increase,
      zl |-> zoomLevel, stepped |-> ZoomStep(zoomLevel, increase),
      \* the scroll event right before this one, if there was one
      prev |-> IF lastOp.op = "Scroll"
               THEN << [ zl |-> lastOp.zl, increase |-> lastOp.increase ] >>
               ELSE << >> ]

\* glfwPollEvents() -> myGLFWscrollfun() with yoffset # 0, the mouse not
\* over an ImGui window
Scroll(increase) ==
    /\ pc = "draw"
    /\ Abs(zoomLevel.a) <= MaxCoef
    /\ Abs(zoomLevel.b) <= MaxCoef
    /\ zoomLevel.d <= MaxCoef
    /\ zoomLevel' = CalcZoomLevel(zoomLevel, increase)
    /\ lastOp' = ZoomOp("Scroll", increase)
    /\ UNCHANGED << viewVars, transX, transY, shaderVars, loadVars,
                    showGLSLeditWindow, glslAppearing, buf, imGuiMenuWidth,
                    display, pc, tiles >>

ScrollUp ==
    /\ QLeq(zoomLevel, Q(MaxZoom, 1))
    /\ Scroll(TRUE)

ScrollDown ==
    /\ QLeq(Q(1, MinZoomDen), zoomLevel)
    /\ Scroll(FALSE)

\* glfwPollEvents() -> myGLFWkeyfun() with GLFW_KEY_R, no text input active
KeyReset ==
    /\ pc = "draw"
    /\ zoomLevel' = Q(1, 1)
    /\ transX' = 10
    /\ transY' = 10
    /\ lastOp' = Op("KeyReset")
    /\ UNCHANGED << viewVars, shaderVars, loadVars, showGLSLeditWindow,
                    glslAppearing, buf, imGuiMenuWidth, display, pc, tiles >>

\* the values the "Zoom" slider is dragged to
SliderValues ==
    { Q(n, ZoomGridDen) : n \in 1..(MaxZoom * ZoomGridDen) }

\* DrawSidebar(): the "Zoom" slider
UiZoomSlider ==
    /\ UiFrame
    /\ buf' = BufShown
    /\ \E zl \in SliderValues \ {zoomLevel} : zoomLevel' = zl
    /\ lastOp' = Op("ZoomSlider")
    /\ UNCHANGED << viewVars, transX, transY, shaderVars, loadVars,
                    showGLSLeditWindow >>

\* DrawSidebar(): the "Fit to Window" button, with the size of curTex and
\* the sidebar width of the frame before
UiFitToWindow ==
    /\ UiFrame
    /\ buf' = BufShown
    /\ \E fit \in { ZoomFitToWindow(display, imGuiMenuWidth, curTex.file.w,
                                    curTex.file.h, IsCubemap(curTex)) } :
           /\ zoomLevel' = fit.zoomLevel
           /\ transX' = fit.transX
           /\ transY' = fit.transY
    /\ lastOp' = Op("FitToWindow")
    /\ UNCHANGED << viewVars, shaderVars, loadVars, showGLSLeditWindow >>

\* the framebuffer sizes the window is given
DisplaySizes == { << DisplayW, DisplayH >>, << 1000, 500 >> }

\* the user resizes the window between two frames: glfwGetFramebufferSize()
\* reports another size from then on
WindowResize ==
    /\ pc = "draw"
    /\ \E d \in DisplaySizes \ {display} : display' = d
    /\ lastOp' = Op("WindowResize")
    /\ UNCHANGED << viewVars, zoomVars, shaderVars, loadVars,
                    showGLSLeditWindow, glslAppearing, buf, imGuiMenuWidth,
                    pc, tiles >>

(***************************************************************************)
(* Spec: textures and shader programs over their life: every file, every   *)
(* outcome of decoding, upload, compiling and linking.                     *)
(***************************************************************************)
StartLoad == StartLoadOf(TexFiles, LoadOutcomes)
UiOpenFile == UiOpenFileOf(TexFiles, LoadOutcomes)
UiSimpleTypeBG == UiSimpleTypeOf({ << 98, 103 >> })

Next ==
    \/ StartLoad
    \/ StartPlain
    \/ GenericFrame
    \/ UiIdle
    \/ UiOpenFile
    \/ UiSimpleTypeBG

Spec == Init /\ [][Next]_vars

(***************************************************************************)
(* SpecSwizzle: the swizzle user interface, on the plain 2D files.         *)
(***************************************************************************)
PlainFiles == { f \in TexFiles : ~f.isCubemap /\ ~f.isArray /\ f.numMips = 1 }
StartLoadPlain == StartLoadOf(PlainFiles, LoadOutcomes)
UiOpenFilePlain == UiOpenFileOf(PlainFiles, LoadOutcomes)
UiSimpleType == UiSimpleTypeOf(SimpleTexts)

NextSwizzle ==
    \/ StartLoadPlain
    \/ StartPlain
    \/ GenericFrame
    \/ UiIdle
    \/ UiOpenFilePlain
    \/ UiEditorType
    \/ UiEditorApply
    \/ UiEditorClose
    \/ UiSimpleType
    \/ UiEditAdvanced
    \/ UiToggleAdvanced

SpecSwizzle == Init /\ [][NextSwizzle]_vars

(***************************************************************************)
(* SpecDraw: the view controls and the frames drawn, on the files with     *)
(* mipmaps, with loads that succeed or fail in decoding.                   *)
(***************************************************************************)
MipFiles == { f \in TexFiles : f.numMips > 1 }
DrawOutcomes == { lo \in LoadOutcomes : lo.uploadOk /\ OutcomeOK(lo.o) }
StartLoadMips == StartLoadOf(MipFiles, DrawOutcomes)
UiOpenFileMips == UiOpenFileOf(MipFiles, DrawOutcomes)

NextDraw ==
    \/ StartLoadMips
    \/ GenericFrame
    \/ UiOpenFileMips
    \/ UiViewMode
    \/ UiSameSize
    \/ UiCubeVariant
    \/ UiMipLevel
    \/ UiArrayIndex

SpecDraw == Init /\ [][NextDraw]_vars

(***************************************************************************)
(* SpecCube: the cube cross, for the cubemap files, every variant, spacing *)
(* and view mode.                                                          *)
(***************************************************************************)
CubeFiles == { f \in TexFiles : f.isCubemap }
OkOutcomes == { lo \in LoadOutcomes : lo.loadOk /\ lo.uploadOk /\ OutcomeOK(lo.o) }
StartLoadCube == StartLoadOf(CubeFiles, OkOutcomes)
UiOpenFileCube == UiOpenFileOf(CubeFiles, OkOutcomes)

NextCube ==
    \/ StartLoadCube
    \/ StartPlain
    \/ GenericFrame
    \/ UiOpenFileCube
    \/ UiViewMode
    \/ UiCubeVariant
    \/ UiSpacing

SpecCube == Init /\ [][NextCube]_vars

(***************************************************************************)
(* SpecCompact: the mip-grid layouts of 2D textures of 1..MaxLayoutMips    *)
(* levels and four aspect ratios, with every spacing.                      *)
(***************************************************************************)
MaxLayoutMips == 5

LayoutFiles ==
    { TexFile(nm, 1, FALSE, FALSE, "", "", FALSE, FALSE, << >>, sz[1], sz[2]) :
        nm \in 1..MaxLayoutMips,
        sz \in { << 16, 16 >>, << 32, 8 >>, << 8, 32 >>, << 64, 4 >> } }
StartLoadLayout == StartLoadOf(LayoutFiles, OkOutcomes)
UiOpenFileLayout == UiOpenFileOf(LayoutFiles, OkOutcomes)

NextCompact ==
    \/ StartLoadLayout
    \/ StartPlain
    \/ GenericFrame
    \/ UiOpenFileLayout
    \/ UiViewMode
    \/ UiSameSize
    \/ UiSpacing

SpecCompact == Init /\ [][NextCompact]_vars

(***************************************************************************)
(* SpecFit: "Fit to Window" on 2D textures and cubemaps smaller and larger *)
(* than the window, in every view mode and two window sizes.               *)
(***************************************************************************)
FitFiles ==
    { f \in TexFiles : ~f.isArray }
        \cup { TexFile(1, 1, FALSE, FALSE, "", "", TRUE, FALSE, << >>,
                       sz[1], sz[2]) :
                 sz \in { << 200, 100 >>, << 2560, 720 >> } }
StartLoadFit == StartLoadOf(FitFiles, OkOutcomes)
UiOpenFileFit == UiOpenFileOf(FitFiles, OkOutcomes)

NextFit ==
    \/ StartLoadFit
    \/ StartPlain
    \/ GenericFrame
    \/ UiOpenFileFit
    \/ UiViewMode
    \/ UiFitToWindow
    \/ WindowResize

SpecFit == Init /\ [][NextFit]_vars

(***************************************************************************)
(* SpecTraits: the shaders synthesized for every combination of texture    *)
(* traits, with every outcome of compiling and linking.                    *)
(***************************************************************************)
\* intKind is what GetIntTexInfo() leaves in isUnsigned ("u" for true, "i"
\* for false), normDiv the divisor text it returns, "" for nullptr
TraitFiles ==
    { TexFile(1, IF arr THEN MaxElems ELSE 1, arr, cube, ik,
              IF ~int THEN "" ELSE IF ik = "u" THEN "255.0" ELSE "127.0",
              FALSE, FALSE, << >>, 4, 4) :
        arr \in BOOLEAN, cube \in BOOLEAN, ik \in { "u", "i" },
        int \in BOOLEAN }
\* every file decodes and uploads; the driver does what it will
TraitOutcomes == { lo \in LoadOutcomes : lo.loadOk /\ lo.uploadOk }
StartLoadTraits == StartLoadOf(TraitFiles, TraitOutcomes)
UiOpenFileTraits == UiOpenFileOf(TraitFiles, TraitOutcomes)

NextTraits ==
    \/ StartLoadTraits
    \/ StartPlain
    \/ GenericFrame
    \/ UiOpenFileTraits
    \/ UiIdle

SpecTraits == Init /\ [][NextTraits]_vars

(***************************************************************************)
(* SpecSRGB: every layout of DrawTexture() on sRGB and linear textures     *)
(* under every entry of the "sRGB" combo.                                  *)
(***************************************************************************)
StartLoadSRGB == StartLoadOf(TexFiles, OkOutcomes)
UiOpenFileSRGB == UiOpenFileOf(TexFiles, OkOutcomes)

NextSRGB ==
    \/ StartLoadSRGB
    \/ StartPlain
    \/ GenericFrame
    \/ UiOpenFileSRGB
    \/ UiViewMode
    \/ UiSameSize
    \/ UiSRGB

SpecSRGB == Init /\ [][NextSRGB]_vars

(***************************************************************************)
(* SpecArray: loads of textures of one and of several elements, with every *)
(* outcome, between moves of the "Array Index" slider.                     *)
(***************************************************************************)
NextArray ==
    \/ StartLoad
    \/ StartPlain
    \/ GenericFrame
    \/ UiOpenFile
    \/ UiArrayIndex

SpecArray == Init /\ [][NextArray]_vars

(***************************************************************************)
(* SpecMip: SetMipmapLevel() on every texture, uploaded or not, with every *)
(* level from -1 to beyond the last mip.                                   *)
(***************************************************************************)
InitMip ==
    /\ \E file \in TexFiles, ok \in BOOLEAN :
           \E up \in { CreateOpenGLtexture(
                           GlInit, [ file |-> file, glTextureHandle |-> 0 ],
                           ok) } :
               /\ curTex = up.tex
               /\ gl = up.gl
    /\ shaderProgram = 0
    /\ texSampleAndNormalize = ""
    /\ swizzle = ""
    /\ simpleSwizzle = << 0, 0, 0, 0, 0 >>
    /\ useSimpleSwizzle = TRUE
    /\ showGLSLeditWindow = FALSE
    /\ glslAppearing = TRUE
    /\ buf = ""
    /\ mipmapLevel = -1
    /\ textureArrayIndex = 0
    /\ spacingBetweenMips = 2
    /\ viewMode = "SINGLE"
    /\ viewAtSameSize = TRUE
    /\ cubeCrossVariant = 0
    /\ numTiles = << 2, 2 >>
    /\ overrideSRGB = -1
    /\ zoomLevel = Q(1, 1)
    /\ transX = 10
    /\ transY = 10
    /\ imGuiMenuWidth = 0
    /\ display = << DisplayW, DisplayH >>
    /\ pc = "start"
    /\ tiles = << >>
    /\ lastOp = Op("Init")

\* one call SetMipmapLevel(curTex, mipLevel, bindTexture)
CallSetMipmapLevel ==
    /\ \E mipLevel \in -1..(MaxMips + 1), bindTexture \in BOOLEAN :
           /\ gl' = SetMipmapLevel(gl, curTex, mipLevel, bindTexture)
           /\ lastOp' = [ op |-> "SetMipmapLevel", mipLevel |-> mipLevel,
                           bindTexture |-> bindTexture,
                           \* the level of the call before, if there was one
                           prev |-> IF lastOp.op = "SetMipmapLevel"
                                    THEN << lastOp.mipLevel >> ELSE << >> ]
    /\ UNCHANGED << viewVars, zoomVars, loadVars, shaderProgram,
                    texSampleAndNormalize, swizzle, showGLSLeditWindow,
                    glslAppearing, buf, imGuiMenuWidth, display, pc, tiles >>

NextMip == CallSetMipmapLevel

SpecMip == InitMip /\ [][NextMip]_vars

(***************************************************************************)
(* SpecZoom: the zoom level under scroll ticks, the R key and the slider.  *)
(***************************************************************************)
NextZoom ==
    \/ StartPlain
    \/ GenericFrame
    \/ ScrollUp
    \/ ScrollDown
    \/ KeyReset
    \/ UiZoomSlider

SpecZoom == Init /\ [][NextZoom]_vars

(***************************************************************************)
(* SpecGrid: the zoom levels the scroll wheel reaches from the reset value *)
(* 1.0 of the R key.                                                       *)
(***************************************************************************)
NextGrid ==
    \/ StartPlain
    \/ GenericFrame
    \/ UiIdle
    \/ ScrollUp
    \/ ScrollDown
    \/ KeyReset

SpecGrid == Init /\ [][NextGrid]_vars

(***************************************************************************)
(* SpecSwz: SetSwizzleFromSimple() on every content of simpleSwizzle over  *)
(* SwizzleChars, the bytes behind a terminator included.                   *)
(***************************************************************************)
\* '\0', '0', '1', 'R', 'a', 'g', 'q', 'r'
SwizzleChars == { 0, 48, 49, 82, 97, 103, 113, 114 }

InitSwz ==
    /\ simpleSwizzle \in { b \in [ 1..5 -> SwizzleChars ] : b[5] = 0 }
    /\ curTex = EmptyTexture
    /\ gl = GlInit
    /\ shaderProgram = 0
    /\ texSampleAndNormalize = ""
    /\ swizzle = ""
    /\ useSimpleSwizzle = TRUE
    /\ showGLSLeditWindow = FALSE
    /\ glslAppearing = TRUE
    /\ buf = ""
    /\ mipmapLevel = -1
    /\ textureArrayIndex = 0
    /\ spacingBetweenMips = 2
    /\ viewMode = "SINGLE"
    /\ viewAtSameSize = TRUE
    /\ cubeCrossVariant = 0
    /\ numTiles = << 2, 2 >>
    /\ overrideSRGB = -1
    /\ zoomLevel = Q(1, 1)
    /\ transX = 10
    /\ transY = 10
    /\ imGuiMenuWidth = 0
    /\ display = << DisplayW, DisplayH >>
    /\ pc = "start"
    /\ tiles = << >>
    /\ lastOp = Op("Init")

\* one call SetSwizzleFromSimple()
CallSetSwizzleFromSimple ==
    /\ lastOp.op = "Init"
    /\ swizzle' = SetSwizzleFromSimple(simpleSwizzle)
    /\ lastOp' = [ op |-> "SetSwizzleFromSimple",
                   args |-> SwizzleArgs(simpleSwizzle), before |-> swizzle ]
    /\ UNCHANGED << viewVars, zoomVars, loadVars, gl, shaderProgram,
                    texSampleAndNormalize, showGLSLeditWindow, glslAppearing,
                    buf, imGuiMenuWidth, display, pc, tiles >>

NextSwz == CallSetSwizzleFromSimple

SpecSwz == InitSwz /\ [][NextSwz]_vars

(***************************************************************************)
(* SpecSwzValid: SetSwizzleFromSimple() on every 4-character simpleSwizzle *)
(* over the valid characters, with swizzle empty or holding a text.        *)
(***************************************************************************)
\* const char* validChars = "rgbaRGBAxyzwXYZW01"
ValidChars ==
    { 114, 103, 98, 97, 82, 71, 66, 65, 120, 121, 122, 119, 88, 89, 90, 87,
      48, 49 }

InitSwzValid ==
    /\ simpleSwizzle \in { b \in [ 1..5 -> ValidChars \cup {0} ] :
                               /\ b[5] = 0
                               /\ \A i \in 1..4 : b[i] # 0 }
    /\ swizzle \in EditorTexts \cup { "" }
    /\ curTex = EmptyTexture
    /\ gl = GlInit
    /\ shaderProgram = 0
    /\ texSampleAndNormalize = ""
    /\ useSimpleSwizzle = TRUE
    /\ showGLSLeditWindow = FALSE
    /\ glslAppearing = TRUE
    /\ buf = ""
    /\ mipmapLevel = -1
    /\ textureArrayIndex = 0
    /\ spacingBetweenMips = 2
    /\ viewMode = "SINGLE"
    /\ viewAtSameSize = TRUE
    /\ cubeCrossVariant = 0
    /\ numTiles = << 2, 2 >>
    /\ overrideSRGB = -1
    /\ zoomLevel = Q(1, 1)
    /\ transX = 10
    /\ transY = 10
    /\ imGuiMenuWidth = 0
    /\ display = << DisplayW, DisplayH >>
    /\ pc = "start"
    /\ tiles = << >>
    /\ lastOp = Op("Init")

SpecSwzValid == InitSwzValid /\ [][NextSwz]_vars

(***************************************************************************)
(* Claims on shader programs and textures (Spec)                           *)
(***************************************************************************)
UpdateShadersFailed(op) == op.shaderRan /\ ~op.shaderOk
UpdateShadersSucceeded(op) == op.shaderRan /\ op.shaderOk

\* C1: shaderProgram is replaced, and the old program deleted, only by an
\* UpdateShaders call whose compile and link steps all succeed; a failed
\* call leaves shaderProgram as it was (0, or the prior program, which then
\* still exists), and a successful call installs a new program and deletes
\* the old one.
C1_ReplacedOnlyOnSuccess ==
    [][ /\ UpdateShadersFailed(lastOp') =>
              /\ shaderProgram' = shaderProgram
              /\ shaderProgram # 0 => shaderProgram \in gl'.programs
        /\ shaderProgram' # shaderProgram => UpdateShadersSucceeded(lastOp')
        /\ (shaderProgram # 0 /\ shaderProgram \notin gl'.programs) =>
              UpdateShadersSucceeded(lastOp')
        /\ UpdateShadersSucceeded(lastOp') =>
              /\ shaderProgram' \in gl'.programs
              /\ shaderProgram' # shaderProgram
              /\ shaderProgram \notin gl'.programs
      ]_vars

\* a rebuild has just failed and the prior program is still the current one
C1_Witness ==
    /\ UpdateShadersFailed(lastOp)
    /\ shaderProgram # 0
    /\ shaderProgram \in gl.programs

\* C2 as claimed: a LoadTexture that fails in decoding or in the GPU upload
\* leaves the previous texture resource, its data and its GPU object, as
\* they were.
C2_FailedLoadKeepsTexture ==
    [][ (lastOp'.op = "LoadTexture" /\ ~(lastOp'.loadOk /\ lastOp'.uploadOk)) =>
            /\ curTex' = curTex
            /\ curTex.glTextureHandle # 0 =>
                   curTex.glTextureHandle \in gl'.textures
      ]_vars

\* C4 as claimed: after UpdateShaders returns, no shader object the call
\* created is still allocated, and at most one program object is allocated,
\* the one in shaderProgram.
C4_NoShaderLeftAllocated ==
    lastOp.shaderRan =>
        /\ lastOp.created \cap gl.shaders = {}
        /\ gl.programs \subseteq {shaderProgram}

\* C4 amended: after UpdateShaders returns, every shader object the call
\* created has been given to glDeleteShader: after a failed call none of
\* them is allocated; after a successful call they exist only flagged for
\* deletion, as the attachments of the program in shaderProgram.  At most
\* one program object is allocated, the one in shaderProgram.
C4_ShadersReleased ==
    lastOp.shaderRan =>
        /\ gl.programs \subseteq {shaderProgram}
        /\ shaderProgram # 0 => gl.programs = {shaderProgram}
        /\ ~lastOp.shaderOk => lastOp.created \cap gl.shaders = {}
        /\ \A s \in gl.shaders :
               /\ s \in gl.delShaders
               /\ <<shaderProgram, s>> \in gl.attached
        /\ lastOp.shaderOk =>
               /\ Cardinality(lastOp.created) = 2
               /\ lastOp.created = gl.shaders

\* a rebuild from the sidebar has succeeded: its two shaders exist, flagged
\* for deletion and attached to the one program there is
C4_Witness ==
    /\ lastOp.op = "SimpleType"
    /\ UpdateShadersSucceeded(lastOp)
    /\ Cardinality(lastOp.created) = 2
    /\ lastOp.created \subseteq gl.shaders \cap gl.delShaders
    /\ gl.programs = {shaderProgram}

(***************************************************************************)
(* Claims on the swizzle user interface (SpecSwizzle)                      *)
(***************************************************************************)
\* C3 as claimed: the expression editor never modifies swizzle in a state
\* where useSimpleSwizzle is true.
C3_NoEditInSimpleMode ==
    [][ lastOp'.op = "EditorType" => ~useSimpleSwizzle ]_vars

(***************************************************************************)
(* Claims on the mip level (SpecDraw, SpecMip)                             *)
(***************************************************************************)
\* the base and max level SetMipmapLevel() gives a texture of numMips > 1
\* levels for the level mipLevel
LevelsFor(mipLevel, numMips) ==
    IF mipLevel = -1 THEN << 0, numMips - 1 >>
    ELSE << Min(mipLevel, numMips - 1), Min(mipLevel, numMips - 1) >>

\* C5: drawing a frame never changes mipmapLevel, in any view mode;
\* mipmapLevel changes only by the "Mip Level" slider or by loading a
\* texture; and every tile drawn with mipLevel -1 is drawn with the base and
\* max level of the persistent mipmapLevel, whatever levels the texture was
\* left at by the tiles drawn before.
C5_DrawKeepsMipmapLevel ==
    [][ /\ lastOp'.op = "GenericFrame" =>
              /\ mipmapLevel' = mipmapLevel
              /\ \A i \in 1..Len(tiles') :
                     (tiles'[i].mipLevel = -1 /\ GetNumMips(curTex) > 1) =>
                         << tiles'[i].base, tiles'[i].max >> =
                             LevelsFor(mipmapLevel, GetNumMips(curTex))
        /\ mipmapLevel' # mipmapLevel =>
              lastOp'.op \in { "MipLevel", "LoadTexture" }
      ]_vars

\* a frame has drawn a tile with mipLevel -1 at a forced level, on a texture
\* that the frame before had left at another, overridden level
C5_Witness ==
    /\ lastOp.op = "GenericFrame"
    /\ mipmapLevel >= 0
    /\ \E i \in 1..Len(tiles) :
           /\ tiles[i].mipLevel = -1
           /\ tiles[i].base = mipmapLevel
           /\ tiles[i].baseBefore # tiles[i].base

\* C6: on a texture with a GPU handle and numMips > 1, SetMipmapLevel with
\* level -1 sets base level 0 and max level numMips-1, and with a level >= 0
\* sets base level = max level = min(level, numMips-1), so both lie in
\* 0..numMips-1; on a texture with one mip level or without a GPU handle the
\* call changes no GPU state.
C6_SetMipmapLevel ==
    [][ lastOp'.op = "SetMipmapLevel" =>
          LET tex == curTex.glTextureHandle
              numMips == GetNumMips(curTex)
              level == lastOp'.mipLevel
          IN  IF tex # 0 /\ numMips > 1
              THEN /\ level = -1 =>
                         /\ gl'.base[tex] = 0
                         /\ gl'.max[tex] = numMips - 1
                   /\ level >= 0 =>
                         /\ gl'.base[tex] = Min(level, numMips - 1)
                         /\ gl'.max[tex] = Min(level, numMips - 1)
                   /\ gl'.base[tex] \in 0..(numMips - 1)
                   /\ gl'.max[tex] \in 0..(numMips - 1)
              ELSE gl' = gl
      ]_vars

\* a call with a level beyond the last mip has forced the last mip
C6_Witness ==
    /\ lastOp.op = "SetMipmapLevel"
    /\ curTex.glTextureHandle # 0
    /\ GetNumMips(curTex) > 1
    /\ lastOp.mipLevel > GetNumMips(curTex) - 1
    /\ gl.base[curTex.glTextureHandle] = GetNumMips(curTex) - 1
    /\ gl.max[curTex.glTextureHandle] = GetNumMips(curTex) - 1

(***************************************************************************)
(* Claims on the zoom level (SpecZoom)                                     *)
(***************************************************************************)
\* C7: from a positive zoom, a scroll tick up gives a strictly greater zoom
\* and a scroll tick down a strictly smaller and still positive one, after
\* snapping; the zoom level is positive after every step.
C7_ZoomMonotone ==
    [][ /\ QSign(zoomLevel') > 0
        /\ lastOp'.op = "Scroll" =>
              /\ QSign(lastOp'.zl) > 0
              /\ lastOp'.increase => QLess(lastOp'.zl, zoomLevel')
              /\ ~lastOp'.increase => QLess(zoomLevel', lastOp'.zl)
      ]_vars

\* a tick up was snapped down, and a value above the start remained
C7_Witness ==
    /\ lastOp.op = "Scroll"
    /\ lastOp.increase
    /\ QLess(zoomLevel, lastOp.stepped)
    /\ QLess(lastOp.zl, zoomLevel)

\* C8 as claimed: before snapping, a step changes the zoom by the amount of
\* the band of the current zoom, the same bands for increase and decrease:
\* 0.5 from 2.0 on, 0.25 in [1.0, 2.0), 0.125 in [0.125, 1.0), a factor of
\* sqrt(2) below 0.125.
C8_SameBands ==
    [][ lastOp'.op = "Scroll" =>
            lastOp'.stepped = ZoomStepSameBands(lastOp'.zl, lastOp'.increase)
      ]_vars

\* C8 amended: before snapping, an increase adds 0.5 in [2.0, oo), 0.25 in
\* [1.0, 2.0), 0.125 in [0.125, 1.0) and multiplies by sqrt(2) below 0.125;
\* a decrease subtracts 0.5 in (2.0, oo), 0.25 in (1.0, 2.0], 0.125 in
\* (0.125, 1.0] and divides by sqrt(2) in (0, 0.125]: a band boundary belongs
\* to the upper band when increasing and to the lower band when decreasing.
C8_StepBands ==
    [][ lastOp'.op = "Scroll" =>
          LET zl == lastOp'.zl
              stepped == lastOp'.stepped
              two == Q(2, 1)
              one == Q(1, 1)
              eighth == Q(1, 8)
          IN  IF lastOp'.increase
              THEN /\ QLeq(two, zl) => stepped = QAdd(zl, Q(1, 2))
                   /\ (QLeq(one, zl) /\ QLess(zl, two)) =>
                          stepped = QAdd(zl, Q(1, 4))
                   /\ (QLeq(eighth, zl) /\ QLess(zl, one)) =>
                          stepped = QAdd(zl, eighth)
                   /\ QLess(zl, eighth) => stepped = QMulSqrt2(zl)
              ELSE /\ QLess(two, zl) => stepped = QSub(zl, Q(1, 2))
                   /\ (QLess(one, zl) /\ QLeq(zl, two)) =>
                          stepped = QSub(zl, Q(1, 4))
                   /\ (QLess(eighth, zl) /\ QLeq(zl, one)) =>
                          stepped = QSub(zl, eighth)
                   /\ QLeq(zl, eighth) => stepped = QDivSqrt2(zl)
      ]_vars

\* a decrease from exactly 2.0 has stepped to 1.75
C8_Witness ==
    /\ lastOp.op = "Scroll"
    /\ ~lastOp.increase
    /\ lastOp.zl = Q(2, 1)
    /\ lastOp.stepped = Q(7, 4)

\* C9: snapping is idempotent: the snap rule applied to a value that
\* CalcZoomLevel has returned gives that value again, also when the value
\* was snapped upward onto 1.0 from below.
C9_SnapIdempotent ==
    [][ lastOp'.op = "Scroll" => ZoomSnap(zoomLevel') = zoomLevel' ]_vars

\* a stepped value below 1.0 was snapped upward onto 1.0
C9_Witness ==
    /\ lastOp.op = "Scroll"
    /\ QLess(lastOp.stepped, Q(1, 1))
    /\ zoomLevel = Q(1, 1)

(***************************************************************************)
(* Claims on SetSwizzleFromSimple (SpecSwz)                                *)
(***************************************************************************)
\* the length of the C string in simpleSwizzle
SwizzleLen == Len(CStr(simpleSwizzle))

\* the argument a valid swizzle character stands for
ChannelOf(c) ==
    CASE c = 48 -> "0.0"
      [] c = 49 -> "1.0"
      [] c \in { 114, 82, 120, 88 } -> "c.r"
      [] c \in { 103, 71, 121, 89 } -> "c.g"
      [] c \in { 98, 66, 122, 90 } -> "c.b"
      [] c \in { 97, 65, 119, 87 } -> "c.a"
      [] OTHER -> "invalid"

\* C10: for a simple swizzle with its terminator at position k < 4, whatever
\* bytes follow the terminator, SetSwizzleFromSimple maps the channels before
\* k from their characters and gives every channel from k on its positional
\* default, 0.0 for channels 0-2 and 1.0 for channel 3; "rg" gives
\* c = vec4(c.r, c.g, 0.0, 1.0);
C10_ShortSwizzleDefaults ==
    [][ (lastOp'.op = "SetSwizzleFromSimple" /\ SwizzleLen < 4) =>
          LET args == lastOp'.args
          IN  /\ \A ch \in 1..4 :
                     /\ ch > SwizzleLen =>
                            args[ch] = (IF ch = 4 THEN "1.0" ELSE "0.0")
                     /\ (ch <= SwizzleLen
                           /\ ChannelOf(simpleSwizzle[ch]) # "invalid") =>
                            args[ch] = ChannelOf(simpleSwizzle[ch])
              /\ swizzle' = "c = vec4(" \o args[1] \o ", " \o args[2] \o ", "
                                \o args[3] \o ", " \o args[4] \o ");\n"
              /\ CStr(simpleSwizzle) = << 114, 103 >> =>
                     swizzle' = "c = vec4(c.r, c.g, 0.0, 1.0);\n"
      ]_vars

\* "rg" with stale characters behind its terminator has been converted
C10_Witness ==
    /\ lastOp.op = "SetSwizzleFromSimple"
    /\ CStr(simpleSwizzle) = << 114, 103 >>
    /\ simpleSwizzle[4] = 97
    /\ swizzle = "c = vec4(c.r, c.g, 0.0, 1.0);\n"

\* the statement c = vec4(a1, a2, a3, a4); of four arguments
Vec4Statement(args) ==
    "c = vec4(" \o args[1] \o ", " \o args[2] \o ", " \o args[3] \o ", "
        \o args[4] \o ");\n"

\* C11 (SpecSwzValid): for every 4-character simple swizzle over r, g, b, a,
\* x, y, z, w, 0, 1 in either letter case, SetSwizzleFromSimple leaves in
\* swizzle the one statement c = vec4(A, B, C, D); whose term at each position
\* is given by the character at that position alone (r/x -> c.r, g/y -> c.g,
\* b/z -> c.b, a/w -> c.a, 0 -> 0.0, 1 -> 1.0), whatever swizzle held before.
C11_ValidSwizzle ==
    [][ lastOp'.op = "SetSwizzleFromSimple" =>
          /\ \A ch \in 1..4 : ChannelOf(simpleSwizzle[ch]) # "invalid"
          /\ swizzle' = Vec4Statement([ ch \in 1..4 |->
                                          ChannelOf(simpleSwizzle[ch]) ])
      ]_vars

\* "Zy1W" has been converted while swizzle held an edited text
C11_Witness ==
    /\ lastOp.op = "SetSwizzleFromSimple"
    /\ lastOp.before = "c = c.bgra;\n"
    /\ simpleSwizzle = << 90, 121, 49, 87, 0 >>
    /\ swizzle = "c = vec4(c.b, c.g, 1.0, c.a);\n"

\* C12 (SpecSwz): with a character outside the valid set in the simple
\* swizzle, SetSwizzleFromSimple still leaves a complete c = vec4(...)
\* statement in swizzle: every position before the terminator that holds an
\* invalid character takes its positional default (0.0, 0.0, 0.0, 1.0), and
\* every position before the terminator that holds a valid character is
\* mapped from that character.
C12_InvalidCharDefault ==
    [][ (lastOp'.op = "SetSwizzleFromSimple"
           /\ \E i \in 1..SwizzleLen :
                  ChannelOf(simpleSwizzle[i]) = "invalid") =>
          LET args == lastOp'.args
          IN  /\ swizzle' = Vec4Statement(args)
              /\ \A ch \in 1..4 :
                     /\ args[ch] \in { "0.0", "1.0", "c.r", "c.g", "c.b",
                                       "c.a" }
                     /\ ch <= SwizzleLen =>
                            args[ch] =
                              IF ChannelOf(simpleSwizzle[ch]) = "invalid"
                              THEN (IF ch = 4 THEN "1.0" ELSE "0.0")
                              ELSE ChannelOf(simpleSwizzle[ch])
      ]_vars

\* "rqga" has been converted: the channel of 'q' is 0.0, the channels behind
\* it are mapped
C12_Witness ==
    /\ lastOp.op = "SetSwizzleFromSimple"
    /\ simpleSwizzle = << 114, 113, 103, 97, 0 >>
    /\ swizzle = "c = vec4(c.r, 0.0, c.g, c.a);\n"

SideFace(k) ==
    CASE k = 0 -> FI_XNEG [] k = 1 -> FI_ZPOS [] k = 2 -> FI_XPOS
      [] k = 3 -> FI_ZNEG

\* the tile of face f of the last frame
TileOfFace(f) == CHOOSE i \in 1..Len(tiles) : tiles[i].faceIndex = f

CellOf(i) ==
    << tiles[i].x \div (2 * (curTex.file.w + spacingBetweenMips)),
       tiles[i].y \div (2 * (curTex.file.h + spacingBetweenMips)) >>

\* C15: in MIPMAPS_COMPACT with viewAtSameSize, for every numMips >= 1 and
\* aspect ratio, one tile is drawn per mip level in ascending order, each on
\* a cell of the grid of pitch (texW + spacing, texH + spacing); tile i and
\* tile i+1 are on neighbouring cells (one step horizontally or vertically),
\* no two tiles share a cell, and rows hold n = ceil(sqrt(numMips * texH /
\* texW)) tiles and alternate their horizontal direction.
C15_CompactGrid ==
    (lastOp.op = "GenericFrame" /\ ~IsCubemap(curTex)
       /\ GetNumMips(curTex) >= 1
       /\ viewMode = "MIPMAPS_COMPACT" /\ viewAtSameSize) =>
        LET numMips == GetNumMips(curTex)
            texW == curTex.file.w
            texH == curTex.file.h
            \* n = ceil(sqrt(numMips * texH / texW))
            n == CHOOSE k \in 1..(numMips * texH) :
                     /\ k * k * texW >= numMips * texH
                     /\ (k - 1) * (k - 1) * texW < numMips * texH
        IN  /\ Len(tiles) = numMips
            /\ \A i \in 1..numMips :
                   /\ tiles[i].mipLevel = i - 1
                   /\ tiles[i].x % (2 * (texW + spacingBetweenMips)) = 0
                   /\ tiles[i].y % (2 * (texH + spacingBetweenMips)) = 0
                   /\ tiles[i].w = 2 * texW /\ tiles[i].h = 2 * texH
                   /\ CellOf(i)[2] = (i - 1) \div n
                   /\ CellOf(i)[1] = IF ((i - 1) \div n) % 2 = 0
                                     THEN (i - 1) % n
                                     ELSE n - 1 - ((i - 1) % n)
            /\ \A i \in 1..(numMips - 1) :
                   Abs(CellOf(i + 1)[1] - CellOf(i)[1])
                       + Abs(CellOf(i + 1)[2] - CellOf(i)[2]) = 1
            /\ \A i, j \in 1..numMips : CellOf(i) = CellOf(j) => i = j

\* five mips of a square texture have been drawn in rows of three: the
\* fourth tile lies below the third, the fifth to its left
C15_Witness ==
    /\ lastOp.op = "GenericFrame"
    /\ viewMode = "MIPMAPS_COMPACT" /\ viewAtSameSize
    /\ curTex.file.w = curTex.file.h
    /\ spacingBetweenMips = 3
    /\ Len(tiles) = 5
    /\ CellOf(3) = << 2, 0 >>
    /\ CellOf(4) = << 2, 1 >>
    /\ CellOf(5) = << 1, 1 >>

\* C16: "Fit to Window" on a non-cube texture of size (tw, th), with W the
\* framebuffer width minus the sidebar width and H the framebuffer height,
\* sets zoomLevel to min(W / tw, H / th), the pan of the dimension that
\* determines the zoom to 0 and the pan of the other dimension to
\* floor(0.5 * (available extent / zoom - texture extent)); a 200 x 100
\* texture in 1000 x 500 with sidebar width 0 gets zoomLevel 5 and pan (0, 0).
C16_ZoomFitToWindow ==
    [][ (lastOp'.op = "FitToWindow" /\ ~IsCubemap(curTex)
           /\ curTex.file.w > 0) =>
        LET tw == curTex.file.w
            th == curTex.file.h
            W == display[1] - imGuiMenuWidth
            H == display[2]
            z == zoomLevel'
        IN  /\ z.b = 0 /\ z.d > 0
            \* z = min(W / tw, H / th)
            /\ z.a * tw <= W * z.d
            /\ z.a * th <= H * z.d
            /\ (z.a * tw = W * z.d \/ z.a * th = H * z.d)
            \* floor(0.5 * (H / z - th)) = floor((H * z.d - th * z.a) / (2 * z.a))
            /\ IF W * th < H * tw
               THEN /\ transX' = 0
                    /\ transY' = (H * z.d - th * z.a) \div (2 * z.a)
               ELSE /\ transY' = 0
                    /\ transX' = (W * z.d - tw * z.a) \div (2 * z.a)
            /\ (tw = 200 /\ th = 100 /\ W = 1000 /\ H = 500
                   /\ imGuiMenuWidth = 0) =>
                   (z = Q(5, 1) /\ transX' = 0 /\ transY' = 0) ]_vars

\* the 200 x 100 texture has been fitted into 1000 x 500 with no sidebar yet
C16_Witness ==
    /\ lastOp.op = "FitToWindow"
    /\ curTex.file.w = 200 /\ curTex.file.h = 100
    /\ display = << 1000, 500 >>
    /\ zoomLevel = Q(5, 1) /\ transX = 0 /\ transY = 0

\* GenericFrame(): the modelview matrix is glScaled(zoomLevel) followed by
\* glTranslated(trans / zoomLevel), so a point v of the layout is shown at
\* zoomLevel * v + trans pixels of the viewport (content scale 1); hp is v in
\* half pixels
ScreenPos(hp, trans) == QAdd(QScale(zoomLevel, hp, 2), Q(trans, 1))

\* tile t of the last frame lies inside the viewport GenericFrame() sets:
\* display_w - imGuiMenuWidth wide and display_h high
TileInsideViewport(t) ==
    /\ QLeq(Q(0, 1), ScreenPos(t.x, transX))
    /\ QLeq(ScreenPos(t.x + t.w, transX), Q(display[1] - imGuiMenuWidth, 1))
    /\ QLeq(Q(0, 1), ScreenPos(t.y, transY))
    /\ QLeq(ScreenPos(t.y + t.h, transY), Q(display[2], 1))

\* what ZoomFitToWindow(window, tw, th, isCubemap) of the "Fit to Window"
\* button gives for curTex in the present window
FitOfCurTex ==
    ZoomFitToWindow(display, imGuiMenuWidth, curTex.file.w, curTex.file.h,
                    IsCubemap(curTex))

\* C17: the frame drawn after "Fit to Window", in the viewport the fit was
\* computed for, shows every tile of the footprint (the cube cross, the
\* texture, the numTiles repetitions of Tiled mode) inside the available
\* area.
C17_FitFootprintInside ==
    [][ (lastOp.op = "FitToWindow" /\ lastOp'.op = "GenericFrame"
           /\ [ zoomLevel |-> zoomLevel, transX |-> transX,
                 transY |-> transY ] = FitOfCurTex
           /\ viewMode \in { "SINGLE", "TILED" }) =>
        \A i \in 1..Len(tiles') : TileInsideViewport(tiles'[i]) ]_vars

\* text s contains text sub
Contains(s, sub) ==
    \E i \in 1..(Len(s) - Len(sub) + 1) : SubSeq(s, i, i + Len(sub) - 1) = sub

\* the fragment sources of the current program
CurrentSources == { pr[2] : pr \in { c \in gl.code : c[1] = shaderProgram } }

\* the type named by a declaration "uniform <type> tex0;\n"
DeclaredType(decl) == SubSeq(decl, 9, Len(decl) - 7)

\* C18: for every combination of texture traits (integer format or not,
\* signed or unsigned, cubemap or not, array or not), the fragment source
\* UpdateShaders builds declares a sampler whose type begins with "u"
\* (unsigned) or "i" (signed) exactly when the texture has an integer format,
\* and contains a statement dividing the sampled vector by the format's
\* divisor exactly when it has; a float 2D texture gets sampler2D and no
\* division, an 8-bit unsigned-integer 2D texture usampler2D and a division
\* by 255.0.
C18_SamplerAndNormalize ==
    (lastOp.op = "LoadTexture" /\ lastOp.shaderOk) =>
        /\ CurrentSources # {}
        /\ \A src \in CurrentSources :
           LET f == curTex.file
               int == f.normDiv # ""
               type == DeclaredType(src.sampler)
               plain == IF f.isCubemap
                        THEN (IF f.isArray THEN "samplerCubeArray"
                              ELSE "samplerCube")
                        ELSE (IF f.isArray THEN "sampler2DArray"
                              ELSE "sampler2D")
           IN  /\ src.sampler = "uniform " \o type \o " tex0;\n"
               /\ src.sample = texSampleAndNormalize
               /\ (int /\ f.intKind = "u") <=> type = "u" \o plain
               /\ (int /\ f.intKind = "i") <=> type = "i" \o plain
               /\ ~int <=> type = plain
               /\ int <=> Contains(src.sample,
                                   " vec4 c = vec4(v) / " \o f.normDiv \o ";\n")
               /\ int <=> Contains(src.sample, "/")
               /\ (~int /\ ~f.isCubemap /\ ~f.isArray) =>
                      src.sampler = "uniform sampler2D tex0;\n"
               /\ (int /\ f.intKind = "u" /\ ~f.isCubemap /\ ~f.isArray) =>
                      /\ src.sampler = "uniform usampler2D tex0;\n"
                      /\ Contains(src.sample, "vec4(v) / 255.0;")

\* the shaders of an unsigned-integer 2D texture have been built and linked
C18_Witness ==
    /\ lastOp.op = "LoadTexture" /\ lastOp.shaderOk
    /\ curTex.file.normDiv = "255.0" /\ curTex.file.intKind = "u"
    /\ ~curTex.file.isCubemap /\ ~curTex.file.isArray
    /\ \E src \in CurrentSources :
           /\ src.sampler = "uniform usampler2D tex0;\n"
           /\ Contains(src.sample, "/ 255.0")

\* C19: when DrawTexture returns, on the cube cross, in Single, Tiled and
\* every mip-grid mode, with viewAtSameSize on or off, for every entry of the
\* sRGB override and either sRGB flag of the texture, GL_FRAMEBUFFER_SRGB is
\* disabled; so it is disabled while the frame's UI is rendered.
C19_SRGBDisabledAfterDraw ==
    /\ lastOp.op = "GenericFrame" => ~gl.srgb
    /\ pc = "ui" => ~gl.srgb

\* a cube cross has been drawn with GL_FRAMEBUFFER_SRGB enabled by the
\* override on a texture that is not sRGB, and the state is disabled again
C19_Witness ==
    /\ lastOp.op = "GenericFrame" /\ pc = "ui"
    /\ IsCubemap(curTex) /\ ~curTex.file.isSRGB /\ overrideSRGB = 1
    /\ Len(tiles) = 6
    /\ \A i \in 1..6 : tiles[i].srgb
    /\ ~gl.srgb

\* C20: after any sequence of loads (successful or failed, of textures with
\* differing element counts) and moves of the "Array Index" slider, at every
\* draw of a loaded texture textureArrayIndex lies in 0..numElements-1 of
\* curTex, and every tile is drawn with that element.
C20_ArrayIndexInRange ==
    ((pc = "draw" \/ lastOp.op = "GenericFrame")
       /\ GetNumElements(curTex) > 0) =>
        /\ textureArrayIndex >= 0
        /\ textureArrayIndex <= GetNumElements(curTex) - 1
        /\ lastOp.op = "GenericFrame" =>
               \A i \in 1..Len(tiles) : tiles[i].arrayIndex = textureArrayIndex

\* the last element of an array texture has been drawn
C20_Witness ==
    /\ lastOp.op = "GenericFrame"
    /\ IsArray(curTex) /\ GetNumElements(curTex) > 1
    /\ textureArrayIndex = GetNumElements(curTex) - 1
    /\ Len(tiles) > 0
    /\ tiles[1].arrayIndex = GetNumElements(curTex) - 1

\* the level a call SetMipmapLevel(curTex, level) puts into effect
EffectiveLevel(level) ==
    IF level < 0 THEN -1 ELSE Min(level, GetNumMips(curTex) - 1)

\* C21 (SpecMip): on a texture with numMips > 1, a call SetMipmapLevel(tex,
\* level) with level >= 0 followed by a call with the effective level
\* min(level, numMips-1) leaves base level and max level as the first call
\* set them, and -1 after -1 leaves them at 0 and numMips-1.
C21_ClampIdempotent ==
    [][ (lastOp.op = "SetMipmapLevel" /\ lastOp'.op = "SetMipmapLevel"
           /\ curTex.glTextureHandle # 0 /\ GetNumMips(curTex) > 1
           /\ lastOp'.mipLevel = EffectiveLevel(lastOp.mipLevel)) =>
        LET tex == curTex.glTextureHandle
        IN  /\ gl'.base[tex] = gl.base[tex]
            /\ gl'.max[tex] = gl.max[tex]
            /\ lastOp.mipLevel = -1 =>
                   /\ gl'.base[tex] = 0
                   /\ gl'.max[tex] = GetNumMips(curTex) - 1 ]_vars

\* a level beyond the last mip has been followed by the last mip's level
C21_Witness ==
    /\ lastOp.op = "SetMipmapLevel"
    /\ curTex.glTextureHandle # 0 /\ GetNumMips(curTex) > 1
    /\ lastOp.prev # << >>
    /\ lastOp.prev[1] > GetNumMips(curTex) - 1
    /\ lastOp.mipLevel = GetNumMips(curTex) - 1
    /\ gl.base[curTex.glTextureHandle] = GetNumMips(curTex) - 1
    /\ gl.max[curTex.glTextureHandle] = GetNumMips(curTex) - 1

\* a stop of the zoom grid: a multiple of 0.125 in [0.125, 1.0], of 0.25 in
\* [1.0, 2.0], of 0.5 from 2.0 upward (z = a / d in lowest terms)
OnZoomGrid(z) ==
    /\ z.b = 0
    /\ \/ QLeq(Q(1, 8), z) /\ QLeq(z, Q(1, 1)) /\ 8 % z.d = 0
       \/ QLeq(Q(1, 1), z) /\ QLeq(z, Q(2, 1)) /\ 4 % z.d = 0
       \/ QLeq(Q(2, 1), z) /\ 2 % z.d = 0

\* two scroll events in a row, the first in direction first and the second
\* in the opposite direction, the first one taken from a grid stop
OppositeTicks(first) ==
    /\ lastOp.op = "Scroll" /\ lastOp'.op = "Scroll"
    /\ lastOp.increase = first /\ lastOp'.increase = ~first
    /\ OnZoomGrid(lastOp.zl)

\* C22 as claimed, last part: every step of CalcZoomLevel from a grid stop
\* lands on a grid stop.
C22_StepStaysOnGrid ==
    [][ (lastOp'.op = "Scroll" /\ OnZoomGrid(lastOp'.zl)) =>
            OnZoomGrid(zoomLevel') ]_vars

\* C22 amended: from a grid stop, one increase followed by one decrease
\* returns the starting value, and from a grid stop above 0.125 one decrease
\* followed by one increase returns the starting value; every increase from
\* a grid stop and every decrease from a grid stop above 0.125 lands on a
\* grid stop, while the decrease from 0.125 leaves the grid: it gives
\* 0.125 / sqrt(2).
C22_GridInverses ==
    [][ /\ OppositeTicks(TRUE) => zoomLevel' = lastOp.zl
        /\ (OppositeTicks(FALSE) /\ QLess(Q(1, 8), lastOp.zl)) =>
               zoomLevel' = lastOp.zl
        /\ (lastOp'.op = "Scroll" /\ OnZoomGrid(lastOp'.zl)) =>
               IF lastOp'.increase \/ QLess(Q(1, 8), lastOp'.zl)
               THEN OnZoomGrid(zoomLevel')
               ELSE /\ zoomLevel' = QDivSqrt2(Q(1, 8))
                    /\ ~OnZoomGrid(zoomLevel')
      ]_vars

\* an increase from 1.75 to 2.0 has been followed by a decrease, which has
\* returned to 1.75
C22_Witness ==
    /\ lastOp.op = "Scroll" /\ ~lastOp.increase
    /\ lastOp.prev = << [ zl |-> Q(7, 4), increase |-> TRUE ] >>
    /\ lastOp.zl = Q(2, 1)
    /\ zoomLevel = Q(7, 4)

\* the sampler type and the texture coordinates a fragment source has when
\* it was synthesized for the traits of curTex
SourceMatchesCurTex(src) ==
    LET f == curTex.file
        plain == IF f.isCubemap
                 THEN (IF f.isArray THEN "samplerCubeArray" ELSE "samplerCube")
                 ELSE (IF f.isArray THEN "sampler2DArray" ELSE "sampler2D")
        prefix == IF f.normDiv # "" THEN f.intKind ELSE ""
        coords == IF f.isCubemap
                  THEN (IF f.isArray THEN "stpq" ELSE "stp")
                  ELSE (IF f.isArray THEN "stp" ELSE "st")
    IN  /\ DeclaredType(src.sampler) = prefix \o plain
        /\ Contains(src.sample, "texCoord." \o coords \o " )")

\* C23: after any sequence of LoadTexture and UpdateShaders calls, with
\* every outcome of loading, compiling and linking, a program that is
\* current when a frame is drawn (shaderProgram # 0) was synthesized for the
\* traits of curTex: its sampler type and coordinate count match.
C23_ProgramMatchesTexture ==
    (lastOp.op = "GenericFrame" /\ shaderProgram # 0) =>
        /\ CurrentSources # {}
        /\ \A src \in CurrentSources : SourceMatchesCurTex(src)
====
